---- MODULE Spec2Model ----
(***************************************************************************)
(* A model of the circuit-building core of halo2_common:                   *)
(*   - the V1 dual-pass floor planner (circuit/floor_planner/v1.rs),       *)
(*   - the Expression operators and the ConstraintSystem builder           *)
(*     (plonk/circuit.rs).                                                 *)
(* Spec     : V1::synthesize driving a circuit through both passes.        *)
(* SpecExpr : the expression algebra.                                      *)
(* SpecCS   : the ConstraintSystem registry.                               *)
(***************************************************************************)
EXTENDS Integers, Sequences, FiniteSets, TLC

\* ---------------------------------------------------------------- bounds
\* calls the circuit issues in one pass of synthesize, on the layouter and on the
\* region and table handles together
MaxCalls == 4
\* the same for a circuit whose regions only write cells, given no constants column
MaxRegionCalls == 5
\* nodes of the operands an operator is applied to
MaxNodes == 4
\* expressions the circuit holds at one time
MaxHeld == 2
\* selectors allocated in a constraint system
MaxSelectors == 2
\* lookup and shuffle arguments added to a constraint system
MaxArguments == 2
\* advice columns, and lookup table columns, allocated in a constraint system
MaxColumns == 3
\* size of the constraint system the circuit builds
MaxBuilderCalls == 4

\* ------------------------------------------------------------- variables
VARIABLES
    pc,              \* position in V1::synthesize: measure, plan, assign, wire, done
    ctx,             \* position of the circuit: top, region (in a region closure), table
    result,          \* return value of V1::synthesize ("none" while running)
    script,          \* the layouter calls circuit.synthesize issued in pass 1, in order
    ip,              \* pass 2: index of the next call of the script
    constants,       \* the `constants` argument: the allowed fixed columns, in order
    measure_regions, \* MeasurementPass.regions
    shape,           \* the RegionShape of the region being measured
    regions,         \* V1Plan.regions: the start row of each region
    column_allocations, \* the intervals the allocator reserved: [col, start, length]
    region_index,    \* AssignmentPass.region_index
    cur_region,      \* V1Region.region_index of the live region handle
    plan_constants,  \* V1Plan.constants: the recorded (constant, cell) pairs
    table_columns,   \* V1Plan.table_columns
    table,           \* SimpleTableLayouter.default_and_assigned of the live table
    returned,        \* the Cells handed back to the circuit in the current pass, each
                     \* with the script position of the call that returned it
    wire_i,          \* constant wiring: index of the next pair of the zip
    log,             \* every call the backend sink received, in order
    exprs,           \* SpecExpr: the expressions built so far
    last,            \* SpecExpr: the last operator application and its outcome
    cs,              \* SpecCS: the ConstraintSystem, with the outcome of the last call
    selectors        \* SpecCS: the Selector values handed to the circuit

pvars == <<pc, ctx, result, script, ip, constants, measure_regions, shape, regions,
           column_allocations, region_index, cur_region, plan_constants,
           table_columns, table, returned, wire_i, log>>
evars == <<exprs, last>>
cvars == <<cs, selectors>>
vars == <<pvars, evars, cvars>>

\* --------------------------------------------------------------- columns
Col(ct, i) == [ct |-> ct, index |-> i]
A0 == Col("Advice", 0)
F0 == Col("Fixed", 0)
F1 == Col("Fixed", 1)
I0 == Col("Instance", 0)
S0 == Col("Selector", 0)
T0 == Col("Fixed", 2)
T1 == Col("Fixed", 3)
NoCol == Col("None", 0)
TableCols == {T0, T1}
Offsets == {0, 1}
InstanceRows == {1}
\* the constant the circuit assigns at an offset
ConstAt(off) == IF off = 0 THEN "k0" ELSE "k1"
Consts == {"k0", "k1"}
ConstantsArgs == {<<F0>>, <<F1, F0>>}

Max(a, b) == IF a >= b THEN a ELSE b
Min(a, b) == IF a <= b THEN a ELSE b

\* a Cell value
Cell(ri, off, col) == [region_index |-> ri, row_offset |-> off, column |-> col]

\* one call of the circuit on the layouter or on a region handle
SE(e, col, off, k, row, j, j2, ok) ==
    [e |-> e, col |-> col, off |-> off, k |-> k, row |-> row, j |-> j, j2 |-> j2, ok |-> ok]

\* one call received by the backend sink; `by` names the planner code that issued
\* it, `at` the script position of the circuit's call, `n` the number (from 0) of
\* the assign_region call whose closure issued it
BE(call, by, col, row, val, col2, row2, ok) ==
    [call |-> call, by |-> by, col |-> col, row |-> row, val |-> val,
     col2 |-> col2, row2 |-> row2, ok |-> ok, at |-> ip,
     n |-> Cardinality({i \in 1..Min(ip, Len(script)) : script[i].e = "assign_region"}) - 1]

\* the calls of the script, the returns of closures and of synthesize left out
Calls == Cardinality({i \in DOMAIN script : script[i].e \notin {"ret", "return"}})

\* ------------------------------------------------------------ RegionShape
NewShape(ri) == [region_index |-> ri, columns |-> {}, row_count |-> 0]
ShapeTouch(sh, col, off) ==
    [sh EXCEPT !.columns = @ \cup {col}, !.row_count = Max(@, off + 1)]

\* --------------------------------------------- allocation strategy (strategy.rs)
\* advice area of a shape: advice columns touched times row_count
AdviceArea(sh) == Cardinality({c \in sh.columns : c.ct = "Advice"}) * sh.row_count

\* faulty variant: the regions are placed in measurement order
RECURSIVE SortedOrder_as_measured(_, _)
SortedOrder_as_measured(shapes, left) ==
    IF left = {} THEN <<>>
    ELSE LET i == CHOOSE x \in left : \A y \in left : x <= y
         IN <<i>> \o SortedOrder_as_measured(shapes, left \ {i})

\* the placement order: descending advice area, equal areas in measurement order
RECURSIVE SortedOrder(_, _)
SortedOrder(shapes, left) ==
    IF left = {} THEN <<>>
    ELSE LET i == CHOOSE x \in left :
                    \A y \in left :
                        \/ AdviceArea(shapes[x]) > AdviceArea(shapes[y])
                        \/ AdviceArea(shapes[x]) = AdviceArea(shapes[y]) /\ x <= y
         IN <<i>> \o SortedOrder(shapes, left \ {i})

\* [r, r + n) is reserved in none of the columns `cols`
IsFree(allocs, cols, r, n) ==
    \A a \in allocs : a.col \in cols => (r + n <= a.start \/ a.start + a.length <= r)

\* first row above every reserved interval (0 when nothing is reserved)
UnboundedStart(allocs) ==
    IF allocs = {} THEN 0
    ELSE LET a == CHOOSE x \in allocs :
                    \A y \in allocs : x.start + x.length >= y.start + y.length
         IN a.start + a.length

\* first fit: the smallest start row free in every touched column
FirstFit(allocs, sh) ==
    CHOOSE r \in 0..UnboundedStart(allocs) :
        /\ IsFree(allocs, sh.columns, r, sh.row_count)
        /\ \A q \in 0..(r - 1) : ~IsFree(allocs, sh.columns, q, sh.row_count)

RECURSIVE SlotIn(_, _, _)
SlotIn(shapes, order, acc) ==
    IF order = <<>> THEN acc
    ELSE LET sh == shapes[Head(order)]
             r == FirstFit(acc.allocs, sh)
         IN SlotIn(shapes, Tail(order),
                   [starts |-> [acc.starts EXCEPT ![Head(order)] = r],
                    allocs |-> acc.allocs \cup
                               {[col |-> c, start |-> r, length |-> sh.row_count] :
                                    c \in sh.columns}])

\* (regions, column_allocations) for the measured shapes
slot_in_biggest_advice_first(shapes) ==
    SlotIn(shapes, SortedOrder(shapes, DOMAIN shapes),
           [starts |-> [i \in DOMAIN shapes |-> 0], allocs |-> {}])

\* ------------------------------------------------ V1::synthesize, planning
\* faulty variant: the row above the last reserved row counts as planned
first_unassigned_row_inclusive == UnboundedStart(column_allocations) + 1

first_unassigned_row == UnboundedStart(column_allocations)

\* the rows of [0, end) that no region reserved in column c, ascending
RECURSIVE AscendingFrom(_, _, _)
AscendingFrom(c, r, end) ==
    IF r >= end THEN <<>>
    ELSE (IF IsFree(column_allocations, {c}, r, 1) THEN <<[col |-> c, row |-> r]>> ELSE <<>>)
         \o AscendingFrom(c, r + 1, end)
free_intervals(c, end) == AscendingFrom(c, 0, end)

\* faulty variant: the columns are streamed last to first
RECURSIVE constant_positions_last_first(_)
constant_positions_last_first(cols) ==
    IF cols = <<>> THEN <<>>
    ELSE constant_positions_last_first(Tail(cols))
         \o free_intervals(Head(cols), first_unassigned_row)

\* the stream of (fixed column, row) positions the constants are paired with
RECURSIVE constant_positions_of(_)
constant_positions_of(cols) ==
    IF cols = <<>> THEN <<>>
    ELSE free_intervals(Head(cols), first_unassigned_row) \o constant_positions_of(Tail(cols))
constant_positions == constant_positions_of(constants)

\* faulty variant: the start row of the region is left out
AbsRow_relative(ri, off) == off

\* *plan.regions[*region_index] + offset
AbsRow(ri, off) == regions[ri + 1] + off
\* the index is in bounds (Vec indexing panics otherwise)
InBounds(ri) == ri + 1 \in DOMAIN regions

\* ------------------------------------------------------------------ Init
NoShape == NewShape(0)
NoTable == [c \in {} |-> 0]
NoLast == [op |-> "none", a |-> [t |-> "-"], b |-> [t |-> "-"], out |-> [t |-> "-"],
           panic |-> FALSE]
\* ConstraintSystem::default; `panic` is the message of the panic that ended the run,
\* `polys` the polynomials the selector conversion returned, `tables` the fixed
\* columns handed out as TableColumn
NoCS ==
    [num_fixed_columns |-> 0, num_advice_columns |-> 0, num_instance_columns |-> 0,
     num_selectors |-> 0, num_challenges |-> 0,
     unblinded_advice_columns |-> <<>>, advice_column_phase |-> <<>>,
     challenge_phase |-> <<>>,
     gates |-> <<>>, advice_queries |-> <<>>, num_advice_queries |-> <<>>,
     instance_queries |-> <<>>, fixed_queries |-> <<>>,
     permutation |-> <<>>, lookups |-> <<>>, shuffles |-> <<>>,
     constants |-> <<>>, minimum_degree |-> <<>>, selector_map |-> <<>>,
     tables |-> {}, panic |-> "none", converted |-> FALSE, polys |-> <<>>]

PlanInit ==
    /\ pc = "measure" /\ ctx = "top" /\ result = "none"
    /\ script = <<>> /\ ip = 0
    /\ constants \in ConstantsArgs
    /\ measure_regions = <<>> /\ shape = NoShape
    /\ regions = <<>> /\ column_allocations = {}
    /\ region_index = 0 /\ cur_region = 0
    /\ plan_constants = <<>> /\ table_columns = <<>> /\ table = NoTable
    /\ returned = <<>> /\ wire_i = 0 /\ log = <<>>

Init == PlanInit /\ exprs = <<>> /\ last = NoLast /\ cs = NoCS /\ selectors = <<>>

\* --------------------------------------------- pass 1: the measurement pass
InMeasure(c) == pc = "measure" /\ ctx = c
CallBudget == IF constants = <<>> THEN MaxRegionCalls ELSE MaxCalls
CanCall == Calls < CallBudget
Record(ev) == script' = Append(script, ev)
MeasureFrame == UNCHANGED <<pc, result, ip, constants, regions, column_allocations,
                            region_index, cur_region, plan_constants, table_columns,
                            table, wire_i, log, evars, cvars>>

\* MeasurementPass::assign_region up to the call of the closure
MeasureAssignRegion ==
    /\ InMeasure("top") /\ CanCall
    /\ shape' = NewShape(Len(measure_regions))
    /\ ctx' = "region"
    /\ Record(SE("assign_region", NoCol, 0, "-", 0, 0, 0, TRUE))
    /\ UNCHANGED <<measure_regions, returned>> /\ MeasureFrame

\* RegionShape: a write records the column and the offset and returns the Cell
ShapeWrite(e, col, off, k, row) ==
    /\ InMeasure("region") /\ CanCall
    /\ shape' = ShapeTouch(shape, col, off)
    /\ returned' = IF e = "enable_selector" THEN returned
                   ELSE Append(returned, [cell |-> Cell(shape.region_index, off, col),
                                          at |-> Len(script) + 1])
    /\ Record(SE(e, col, off, k, row, 0, 0, TRUE))
    /\ UNCHANGED <<ctx, measure_regions>> /\ MeasureFrame

ShapeEnableSelector == \E off \in Offsets : ShapeWrite("enable_selector", S0, off, "-", 0)
ShapeAssignAdvice == \E off \in Offsets : ShapeWrite("assign_advice", A0, off, "w", 0)
ShapeAssignFixed == \E off \in Offsets : ShapeWrite("assign_fixed", F0, off, "w", 0)
ShapeAssignAdviceFromConstant ==
    \E off \in Offsets : ShapeWrite("assign_advice_from_constant", A0, off, ConstAt(off), 0)
ShapeAssignAdviceFromInstance ==
    \E row \in InstanceRows : ShapeWrite("assign_advice_from_instance", A0, 0, "-", row)

\* RegionShape: the operations that record nothing
ShapeNoWrite(ev) ==
    /\ InMeasure("region") /\ CanCall
    /\ Record(ev)
    /\ UNCHANGED <<ctx, shape, measure_regions, returned>> /\ MeasureFrame

ShapeConstrainConstant ==
    \E j \in DOMAIN returned, k \in Consts :
        ShapeNoWrite(SE("constrain_constant", NoCol, 0, k, 0, j, 0, TRUE))
ShapeConstrainEqual ==
    \E j \in DOMAIN returned, j2 \in DOMAIN returned :
        ShapeNoWrite(SE("constrain_equal", NoCol, 0, "-", 0, j, j2, TRUE))

\* MeasurementPass::assign_region from the return of the closure: `?` drops the
\* shape of a closure that failed
MeasureAssignRegionReturn ==
    /\ InMeasure("region")
    /\ \E ok \in BOOLEAN :
        /\ measure_regions' = IF ok THEN Append(measure_regions, shape) ELSE measure_regions
        /\ Record(SE("ret", NoCol, 0, "-", 0, 0, 0, ok))
    /\ ctx' = "top"
    /\ UNCHANGED <<shape, returned>> /\ MeasureFrame

\* V1Pass in measurement mode: the calls that do nothing
MeasureNoOp(ev) ==
    /\ InMeasure("top")
    /\ Record(ev)
    /\ UNCHANGED <<ctx, shape, measure_regions, returned>> /\ MeasureFrame

\* faulty variant: the measurement pass enters a region on the backend
MeasureAssignTable_enters ==
    /\ CanCall /\ InMeasure("top")
    /\ Record(SE("assign_table", NoCol, 0, "-", 0, 0, 0, TRUE))
    /\ log' = Append(log, BE("enter_region", "assign_table", NoCol, 0, "-", NoCol, 0, TRUE))
    /\ UNCHANGED <<pc, ctx, result, ip, constants, measure_regions, shape, regions,
                   column_allocations, region_index, cur_region, plan_constants,
                   table_columns, table, returned, wire_i, evars, cvars>>

MeasureAssignTable ==
    /\ CanCall
    /\ MeasureNoOp(SE("assign_table", NoCol, 0, "-", 0, 0, 0, TRUE))
MeasureConstrainInstance ==
    /\ CanCall
    /\ \E j \in DOMAIN returned, row \in InstanceRows :
        MeasureNoOp(SE("constrain_instance", I0, 0, "-", row, j, 0, TRUE))
MeasureGetChallenge == CanCall /\ MeasureNoOp(SE("get_challenge", NoCol, 0, "unknown", 0, 0, 0, TRUE))
\* the circuit opens one namespace at a time and closes only an open one
InNamespace ==
    \E i \in DOMAIN script :
        /\ script[i].e = "push_namespace"
        /\ \A j \in (i + 1)..Len(script) : script[j].e # "pop_namespace"
MeasurePushNamespace ==
    CanCall /\ ~InNamespace /\ MeasureNoOp(SE("push_namespace", NoCol, 0, "-", 0, 0, 0, TRUE))
MeasurePopNamespace ==
    CanCall /\ InNamespace /\ MeasureNoOp(SE("pop_namespace", NoCol, 0, "-", 0, 0, 0, TRUE))

\* faulty variant: the assignment pass starts without the placement of the regions
MeasureSynthesizeReturn_unplanned ==
    /\ InMeasure("top")
    /\ Record(SE("return", NoCol, 0, "-", 0, 0, 0, TRUE))
    /\ pc' = "assign" /\ ip' = 1 /\ returned' = <<>>
    /\ UNCHANGED <<ctx, result, constants, measure_regions, shape, regions,
                   column_allocations, region_index, cur_region, plan_constants,
                   table_columns, table, wire_i, log, evars, cvars>>

\* V1::synthesize: the measurement run of circuit.synthesize returns
MeasureSynthesizeReturn ==
    /\ InMeasure("top")
    /\ \E ok \in BOOLEAN :
        /\ Record(SE("return", NoCol, 0, "-", 0, 0, 0, ok))
        /\ pc' = IF ok THEN "plan" ELSE "done"
        /\ result' = IF ok THEN result ELSE "Synthesis"
    /\ UNCHANGED <<ctx, ip, constants, measure_regions, shape, regions, column_allocations,
                   region_index, cur_region, plan_constants, table_columns, table,
                   returned, wire_i, log, evars, cvars>>

\* V1::synthesize: planning
PlanRegions ==
    /\ pc = "plan"
    /\ LET placed == slot_in_biggest_advice_first(measure_regions)
       IN /\ regions' = placed.starts
          /\ column_allocations' = placed.allocs
    /\ pc' = "assign" /\ ip' = 1 /\ returned' = <<>>
    /\ UNCHANGED <<ctx, result, script, constants, measure_regions, shape, region_index,
                   cur_region, plan_constants, table_columns, table, wire_i, log,
                   evars, cvars>>

\* ------------------------------------------------ pass 2: the assignment pass
\* the backend is in a region: its last bracket call was enter_region
BackendInRegion ==
    \E i \in DOMAIN log :
        /\ log[i].call = "enter_region"
        /\ \A j \in (i + 1)..Len(log) : log[j].call # "exit_region"

InAssign(c, e) == pc = "assign" /\ ctx = c /\ ip <= Len(script) /\ script[ip].e = e
Send(evs) == log' = log \o evs
\* faulty variant: an Err of the circuit or of the backend is dropped, the run goes on
Fail_swallowed(err) ==
    IF err = "Synthesis" THEN UNCHANGED <<pc, result>> ELSE pc' = "done" /\ result' = err
\* an error propagated by `?` up to the result of V1::synthesize
Fail(err) == pc' = "done" /\ result' = err
Panic == Fail("panic")
Step == ip' = ip + 1 /\ UNCHANGED <<pc, result>>
AssignFrame == UNCHANGED <<script, constants, measure_regions, shape, regions,
                           column_allocations, wire_i, evars, cvars>>

\* Assignment::enter_region panics when the backend is already in a region
EnterRegion(by, c) ==
    IF BackendInRegion
    THEN /\ Send(<<BE("enter_region", by, NoCol, 0, "-", NoCol, 0, FALSE)>>)
         /\ Panic /\ UNCHANGED <<ip, ctx>>
    ELSE /\ Send(<<BE("enter_region", by, NoCol, 0, "-", NoCol, 0, TRUE)>>)
         /\ Step /\ ctx' = c

\* AssignmentPass::assign_region up to the call of the closure
AssignRegion ==
    /\ InAssign("top", "assign_region")
    /\ region_index' = region_index + 1
    /\ cur_region' = region_index
    /\ EnterRegion("assign_region", "region")
    /\ UNCHANGED <<plan_constants, table_columns, table, returned>> /\ AssignFrame

\* V1Region: one backend write at the absolute row, returning the Cell
RegionWrite(call, col, off, val) ==
    /\ UNCHANGED <<ctx, region_index, cur_region, plan_constants, table_columns, table>>
    /\ AssignFrame
    /\ IF ~InBounds(cur_region)
       THEN Panic /\ UNCHANGED <<ip, log, returned>>
       ELSE \E ok \in BOOLEAN :
            /\ Send(<<BE(call, "region", col, AbsRow(cur_region, off), val, NoCol, 0, ok)>>)
            /\ IF ok
               THEN /\ Step
                    /\ returned' = IF call = "enable_selector" THEN returned
                                   ELSE Append(returned, [cell |-> Cell(cur_region, off, col),
                                                          at |-> ip])
               ELSE Fail("Synthesis") /\ UNCHANGED <<ip, returned>>

RegionEnableSelector ==
    /\ InAssign("region", "enable_selector")
    /\ RegionWrite("enable_selector", script[ip].col, script[ip].off, "-")
RegionAssignAdvice ==
    /\ InAssign("region", "assign_advice")
    /\ RegionWrite("assign_advice", script[ip].col, script[ip].off, script[ip].k)
RegionAssignFixed ==
    /\ InAssign("region", "assign_fixed")
    /\ RegionWrite("assign_fixed", script[ip].col, script[ip].off, script[ip].k)

\* faulty variant: the pair is not recorded
ConstrainConstant_forgotten(cell, k) == UNCHANGED plan_constants

\* V1Region::constrain_constant: the pair is recorded, nothing is sent
ConstrainConstant(cell, k) == plan_constants' = Append(plan_constants, [constant |-> k, cell |-> cell])

RegionConstrainConstant ==
    /\ InAssign("region", "constrain_constant")
    /\ script[ip].j \in DOMAIN returned
    /\ ConstrainConstant(returned[script[ip].j].cell, script[ip].k)
    /\ Step
    /\ UNCHANGED <<ctx, region_index, cur_region, table_columns, table, returned, log>>
    /\ AssignFrame

\* V1Region::assign_advice_from_constant: assign_advice, then constrain_constant
RegionAssignAdviceFromConstant ==
    /\ InAssign("region", "assign_advice_from_constant")
    /\ UNCHANGED <<ctx, region_index, cur_region, table_columns, table>> /\ AssignFrame
    /\ LET ev == script[ip] IN
       IF ~InBounds(cur_region)
       THEN Panic /\ UNCHANGED <<ip, log, returned, plan_constants>>
       ELSE \E ok \in BOOLEAN :
            /\ Send(<<BE("assign_advice", "region", ev.col, AbsRow(cur_region, ev.off),
                         ev.k, NoCol, 0, ok)>>)
            /\ IF ok
               THEN /\ Step
                    /\ returned' = Append(returned, [cell |-> Cell(cur_region, ev.off, ev.col),
                                                      at |-> ip])
                    /\ ConstrainConstant(Cell(cur_region, ev.off, ev.col), ev.k)
               ELSE Fail("Synthesis") /\ UNCHANGED <<ip, returned, plan_constants>>

\* V1Region::assign_advice_from_instance: query_instance, assign_advice, copy;
\* `upto` is the number of backend calls that succeed
RegionAssignAdviceFromInstance ==
    /\ InAssign("region", "assign_advice_from_instance")
    /\ UNCHANGED <<ctx, region_index, cur_region, plan_constants, table_columns, table>>
    /\ AssignFrame
    /\ LET ev == script[ip]
           q(ok) == BE("query_instance", "region", I0, ev.row, "-", NoCol, 0, ok)
           a(ok) == BE("assign_advice", "region", ev.col, AbsRow(cur_region, ev.off),
                       "instance", NoCol, 0, ok)
           c(ok) == BE("copy", "region", ev.col, AbsRow(cur_region, ev.off), "-",
                       I0, ev.row, ok)
       IN \E upto \in 0..3 :
            \/ /\ upto = 0 /\ Send(<<q(FALSE)>>)
               /\ Fail("Synthesis") /\ UNCHANGED <<ip, returned>>
            \/ /\ upto > 0 /\ ~InBounds(cur_region) /\ Send(<<q(TRUE)>>)
               /\ Panic /\ UNCHANGED <<ip, returned>>
            \/ /\ upto = 1 /\ InBounds(cur_region) /\ Send(<<q(TRUE), a(FALSE)>>)
               /\ Fail("Synthesis") /\ UNCHANGED <<ip, returned>>
            \/ /\ upto = 2 /\ InBounds(cur_region) /\ Send(<<q(TRUE), a(TRUE), c(FALSE)>>)
               /\ Fail("Synthesis") /\ UNCHANGED <<ip, returned>>
            \/ /\ upto = 3 /\ InBounds(cur_region) /\ Send(<<q(TRUE), a(TRUE), c(TRUE)>>)
               /\ Step
               /\ returned' = Append(returned, [cell |-> Cell(cur_region, ev.off, ev.col),
                                                 at |-> ip])

\* faulty variant: the two cells are handed over in the opposite order
CopyCells_swapped(by, left, right) ==
    IF ~InBounds(left.region_index) \/ ~InBounds(right.region_index)
    THEN Panic /\ UNCHANGED <<ip, log>>
    ELSE \E ok \in BOOLEAN :
         /\ Send(<<BE("copy", by, right.column, AbsRow(right.region_index, right.row_offset),
                      "-", left.column, AbsRow(left.region_index, left.row_offset), ok)>>)
         /\ IF ok THEN Step ELSE Fail("Synthesis") /\ UNCHANGED ip

\* a copy between the absolute addresses of two cells
CopyCells(by, left, right) ==
    IF ~InBounds(left.region_index) \/ ~InBounds(right.region_index)
    THEN Panic /\ UNCHANGED <<ip, log>>
    ELSE \E ok \in BOOLEAN :
         /\ Send(<<BE("copy", by, left.column, AbsRow(left.region_index, left.row_offset),
                      "-", right.column, AbsRow(right.region_index, right.row_offset), ok)>>)
         /\ IF ok THEN Step ELSE Fail("Synthesis") /\ UNCHANGED ip

\* V1Region::constrain_equal
RegionConstrainEqual ==
    /\ InAssign("region", "constrain_equal")
    /\ script[ip].j \in DOMAIN returned /\ script[ip].j2 \in DOMAIN returned
    /\ CopyCells("region", returned[script[ip].j].cell, returned[script[ip].j2].cell)
    /\ UNCHANGED <<ctx, region_index, cur_region, plan_constants, table_columns, table,
                   returned>>
    /\ AssignFrame

\* AssignmentPass::assign_region from the return of the closure: `?` returns the
\* closure's error before exit_region
AssignRegionReturn ==
    /\ InAssign("region", "ret")
    /\ IF script[ip].ok
       THEN Send(<<BE("exit_region", "assign_region", NoCol, 0, "-", NoCol, 0, TRUE)>>)
       ELSE UNCHANGED log
    /\ Step /\ ctx' = "top"
    /\ UNCHANGED <<region_index, cur_region, plan_constants, table_columns, table, returned>>
    /\ AssignFrame

\* ---------------------------------------------------------- assign_table
\* the value the circuit's table holds at (column, offset)
TableVal(t, off) == "t" \o ToString(t.index) \o ToString(off)
TableOps == Cardinality({i \in DOMAIN log : log[i].by = "assign_cell"})
InTable == pc = "assign" /\ ctx = "table"
SeqContains(s, x) == \E i \in DOMAIN s : s[i] = x
Orders(S) == {o \in [1..Cardinality(S) -> S] : \A i, j \in DOMAIN o : i # j => o[i] # o[j]}

\* AssignmentPass::assign_table up to the call of the closure
AssignTable ==
    /\ InAssign("top", "assign_table")
    /\ EnterRegion("assign_table", "table")
    /\ table' = NoTable
    /\ UNCHANGED <<region_index, cur_region, plan_constants, table_columns, returned>>
    /\ AssignFrame

\* the entry of a table column (HashMap::entry(..).or_default())
Entry(t) == IF t \in DOMAIN table THEN table[t] ELSE [default |-> "none", assigned |-> <<>>]
WithEntry(t, e) == [c \in DOMAIN table \cup {t} |-> IF c = t THEN e ELSE table[c]]
\* Vec::resize(offset + 1, false) when shorter, then assigned[offset] = true
MarkAssigned(assigned, off) ==
    [i \in 1..Max(Len(assigned), off + 1) |->
        IF i = off + 1 THEN TRUE ELSE IF i <= Len(assigned) THEN assigned[i] ELSE FALSE]

\* SimpleTableLayouter::assign_cell
TableAssignCell ==
    /\ InTable /\ Calls + TableOps < MaxCalls
    /\ UNCHANGED <<ctx, ip, region_index, cur_region, plan_constants, table_columns, returned>>
    /\ AssignFrame
    /\ \E t \in TableCols, off \in Offsets :
        IF SeqContains(table_columns, t)
        THEN Fail("TableError") /\ UNCHANGED <<log, table>>
        ELSE \E ok \in BOOLEAN :
             /\ Send(<<BE("assign_fixed", "assign_cell", t, off, TableVal(t, off), NoCol, 0, ok)>>)
             /\ IF ~ok
                THEN Fail("Synthesis") /\ table' = WithEntry(t, Entry(t))
                ELSE IF Entry(t).default # "none" /\ off = 0
                THEN Fail("TableError") /\ table' = WithEntry(t, Entry(t))
                ELSE /\ UNCHANGED <<pc, result>>
                     /\ table' = WithEntry(t,
                            [default |-> IF off = 0 THEN TableVal(t, off) ELSE Entry(t).default,
                             assigned |-> MarkAssigned(Entry(t).assigned, off)])

\* compute_table_lengths: every column has a default and no hole, and all columns
\* have the same length; -1 stands for the table-shape error
compute_table_lengths(tbl) ==
    IF \E t \in DOMAIN tbl :
            \/ tbl[t].default = "none" \/ tbl[t].assigned = <<>>
            \/ \E i \in DOMAIN tbl[t].assigned : ~tbl[t].assigned[i]
    THEN -1
    ELSE IF \E t, u \in DOMAIN tbl : Len(tbl[t].assigned) # Len(tbl[u].assigned)
    THEN -1
    ELSE IF DOMAIN tbl = {} THEN 0
    ELSE Len(tbl[CHOOSE t \in DOMAIN tbl : TRUE].assigned)

\* faulty variant: the error of compute_table_lengths is not propagated
table_shape_error_ignored(first_unused) == FALSE
\* the `?` on compute_table_lengths: a table-shape error leaves assign_table
table_shape_error(first_unused) == first_unused = -1

\* faulty variant: the columns are filled from row 0
Fills_from_row_zero(order, first_unused, bad) ==
    [i \in 1..Min(Len(order), bad) |->
        BE("fill_from_row", "assign_table", order[i], 0, table[order[i]].default,
           NoCol, 0, i # bad)]
\* the fill_from_row calls of the columns in iteration order; the call number
\* `bad` (if any) fails
Fills(order, first_unused, bad) ==
    [i \in 1..Min(Len(order), bad) |->
        BE("fill_from_row", "assign_table", order[i], first_unused, table[order[i]].default,
           NoCol, 0, i # bad)]

\* AssignmentPass::assign_table from the return of the closure
AssignTableReturn ==
    /\ InTable
    /\ UNCHANGED <<ip, region_index, cur_region, plan_constants, table, returned>>
    /\ AssignFrame
    /\ \E ok \in BOOLEAN :
        IF ~ok
        THEN Fail("Synthesis") /\ UNCHANGED <<ctx, log, table_columns>>
        ELSE LET first_unused == compute_table_lengths(table)
                 exit == BE("exit_region", "assign_table", NoCol, 0, "-", NoCol, 0, TRUE)
             IN IF table_shape_error(first_unused)
                THEN /\ Send(<<exit>>) /\ Fail("TableError")
                     /\ UNCHANGED <<ctx, table_columns>>
                ELSE \E order \in Orders(DOMAIN table), bad \in 1..(Cardinality(DOMAIN table) + 1) :
                     /\ table_columns' = table_columns \o order
                     /\ Send(<<exit>> \o Fills(order, first_unused, bad))
                     /\ IF bad <= Len(order)
                        THEN Fail("Synthesis") /\ UNCHANGED ctx
                        ELSE ctx' = "top" /\ UNCHANGED <<pc, result>>

\* ------------------------------------------- the other layouter calls, pass 2
\* AssignmentPass::constrain_instance
AssignConstrainInstance ==
    /\ InAssign("top", "constrain_instance")
    /\ script[ip].j \in DOMAIN returned
    /\ LET cell == returned[script[ip].j].cell IN
       IF ~InBounds(cell.region_index)
       THEN Panic /\ UNCHANGED <<ip, log>>
       ELSE \E ok \in BOOLEAN :
            /\ Send(<<BE("copy", "constrain_instance", cell.column,
                         AbsRow(cell.region_index, cell.row_offset), "-",
                         I0, script[ip].row, ok)>>)
            /\ IF ok THEN Step ELSE Fail("Synthesis") /\ UNCHANGED ip
    /\ UNCHANGED <<ctx, region_index, cur_region, plan_constants, table_columns, table,
                   returned>>
    /\ AssignFrame

\* V1Pass in assignment mode: calls forwarded to the backend as they are
Forward(e) ==
    /\ InAssign("top", e)
    /\ Send(<<BE(e, "layouter", NoCol, 0, "-", NoCol, 0, TRUE)>>)
    /\ Step
    /\ UNCHANGED <<ctx, region_index, cur_region, plan_constants, table_columns, table,
                   returned>>
    /\ AssignFrame
AssignGetChallenge == Forward("get_challenge")
AssignPushNamespace == Forward("push_namespace")
AssignPopNamespace == Forward("pop_namespace")

\* ------------------------------------------------------- constant wiring
\* faulty variant: the comparison is the wrong way round
NotEnoughColumnsForConstants_swapped == Len(plan_constants) < Len(constant_positions)

\* the check of line 118
NotEnoughColumnsForConstants == Len(constant_positions) < Len(plan_constants)
\* the number of pairs the zip yields
Zipped == Min(Len(constant_positions), Len(plan_constants))

\* V1::synthesize: the real run of circuit.synthesize returns Ok
AssignSynthesizeReturn ==
    /\ InAssign("top", "return")
    /\ IF NotEnoughColumnsForConstants
       THEN Fail("NotEnoughColumnsForConstants") /\ UNCHANGED wire_i
       ELSE IF Zipped = 0
       THEN Fail("Ok") /\ UNCHANGED wire_i
       ELSE pc' = "wire" /\ wire_i' = 1 /\ UNCHANGED result
    /\ ip' = ip + 1
    /\ UNCHANGED <<ctx, script, constants, measure_regions, shape, regions,
                   column_allocations, region_index, cur_region, plan_constants,
                   table_columns, table, returned, log, evars, cvars>>

\* V1::synthesize: one turn of the loop over the zipped positions and constants
WireConstant ==
    /\ pc = "wire" /\ wire_i <= Zipped
    /\ LET pos == constant_positions[wire_i]
           value == plan_constants[wire_i].constant
           advice == plan_constants[wire_i].cell
           fix(ok) == BE("assign_fixed", "constant", pos.col, pos.row, value, NoCol, 0, ok)
           cp(ok) == BE("copy", "constant", pos.col, pos.row, "-", advice.column,
                        AbsRow(advice.region_index, advice.row_offset), ok)
       IN \E upto \in 0..2 :
            \/ /\ upto = 0 /\ Send(<<fix(FALSE)>>)
               /\ Fail("Synthesis") /\ UNCHANGED wire_i
            \/ /\ upto > 0 /\ ~InBounds(advice.region_index) /\ Send(<<fix(TRUE)>>)
               /\ Panic /\ UNCHANGED wire_i
            \/ /\ upto = 1 /\ InBounds(advice.region_index) /\ Send(<<fix(TRUE), cp(FALSE)>>)
               /\ Fail("Synthesis") /\ UNCHANGED wire_i
            \/ /\ upto = 2 /\ InBounds(advice.region_index) /\ Send(<<fix(TRUE), cp(TRUE)>>)
               /\ wire_i' = wire_i + 1
               /\ IF wire_i = Zipped THEN Fail("Ok") ELSE UNCHANGED <<pc, result>>
    /\ UNCHANGED <<ctx, script, ip, constants, measure_regions, shape, regions,
                   column_allocations, region_index, cur_region, plan_constants,
                   table_columns, table, returned, evars, cvars>>

\* ------------------------------------------------------------------ Spec
Next ==
    \/ MeasureAssignRegion \/ ShapeEnableSelector \/ ShapeAssignAdvice \/ ShapeAssignFixed
    \/ ShapeAssignAdviceFromConstant \/ ShapeAssignAdviceFromInstance
    \/ ShapeConstrainConstant \/ ShapeConstrainEqual
    \/ MeasureAssignRegionReturn \/ MeasureAssignTable
    \/ MeasureConstrainInstance \/ MeasureGetChallenge \/ MeasurePushNamespace
    \/ MeasurePopNamespace \/ MeasureSynthesizeReturn \/ PlanRegions
    \/ AssignRegion \/ RegionEnableSelector \/ RegionAssignAdvice \/ RegionAssignFixed
    \/ RegionConstrainConstant \/ RegionAssignAdviceFromConstant
    \/ RegionAssignAdviceFromInstance \/ RegionConstrainEqual
    \/ AssignRegionReturn \/ AssignTable \/ TableAssignCell
    \/ AssignTableReturn \/ AssignConstrainInstance \/ AssignGetChallenge
    \/ AssignPushNamespace \/ AssignPopNamespace \/ AssignSynthesizeReturn \/ WireConstant

Spec == Init /\ [][Next]_vars

\* V1::synthesize called with an empty `constants` vector
RegionsInit ==
    /\ pc = "measure" /\ ctx = "top" /\ result = "none"
    /\ script = <<>> /\ ip = 0
    /\ constants = <<>>
    /\ measure_regions = <<>> /\ shape = NoShape
    /\ regions = <<>> /\ column_allocations = {}
    /\ region_index = 0 /\ cur_region = 0
    /\ plan_constants = <<>> /\ table_columns = <<>> /\ table = NoTable
    /\ returned = <<>> /\ wire_i = 0 /\ log = <<>>
    /\ exprs = <<>> /\ last = NoLast /\ cs = NoCS /\ selectors = <<>>
\* a circuit that assigns regions and, in them, only writes cells
RegionsNext ==
    \/ MeasureAssignRegion \/ ShapeEnableSelector \/ ShapeAssignAdvice \/ ShapeAssignFixed
    \/ MeasureAssignRegionReturn \/ MeasureSynthesizeReturn \/ PlanRegions
    \/ AssignRegion \/ RegionEnableSelector \/ RegionAssignAdvice \/ RegionAssignFixed
    \/ AssignRegionReturn \/ AssignSynthesizeReturn
SpecRegions == RegionsInit /\ [][RegionsNext]_vars

\* ====================================================================
\* Claims about the floor planner (checked under Spec)
\* ====================================================================
\* the calls the backend received from the constant wiring, in order
ConstantEvents == SelectSeq(log, LAMBDA e : e.by = "constant")
\* the first row above every interval a region reserved
RowBound ==
    IF column_allocations = {} THEN 0
    ELSE LET a == CHOOSE x \in column_allocations :
                    \A y \in column_allocations : x.start + x.length >= y.start + y.length
         IN a.start + a.length
\* row r of the s-th column of the `constants` argument is a free position: below
\* first_unassigned_row and in no interval a region reserved in that column
FreePosition(s, r) ==
    /\ s \in DOMAIN constants
    /\ r \in 0..(RowBound - 1)
    /\ \A a \in column_allocations :
           a.col = constants[s] => (r < a.start \/ r >= a.start + a.length)
FreePositions == {p \in (DOMAIN constants) \X (0..RowBound) : FreePosition(p[1], p[2])}
\* the place of a free position in the stream: columns in argument order, rows ascending
Rank(s, r) ==
    1 + Cardinality({p \in FreePositions : p[1] < s \/ (p[1] = s /\ p[2] < r)})
\* the absolute address of a cell
CellRow(cell) == regions[cell.region_index + 1] + cell.row_offset
\* pass 2 ran the whole of circuit.synthesize, which returned Ok
Pass2Returned == pc \in {"wire", "done"} /\ ip > Len(script)

\* C1: when V1::synthesize returns Ok, the i-th recorded (constant, cell) pair got
\* an assign_fixed of its constant at the i-th free position (columns in the order
\* of the `constants` argument, rows ascending), followed by a copy between that
\* fixed cell and the absolute address of the cell.
C1_ConstantsWired ==
    result = "Ok" =>
        /\ Len(ConstantEvents) = 2 * Len(plan_constants)
        /\ \A i \in DOMAIN plan_constants :
            LET fix == ConstantEvents[2 * i - 1]
                cp == ConstantEvents[2 * i]
                pair == plan_constants[i]
            IN /\ fix.call = "assign_fixed" /\ fix.ok /\ fix.val = pair.constant
               /\ \E s \in DOMAIN constants :
                    /\ constants[s] = fix.col
                    /\ FreePosition(s, fix.row)
                    /\ Rank(s, fix.row) = i
               /\ cp.call = "copy" /\ cp.ok
               /\ cp.col = fix.col /\ cp.row = fix.row
               /\ cp.col2 = pair.cell.column /\ cp.row2 = CellRow(pair.cell)
C1_Witness ==
    /\ result = "Ok" /\ Len(plan_constants) = 2
    /\ plan_constants[1].cell # plan_constants[2].cell

\* C2: when the free positions are fewer than the constants recorded in pass 2,
\* V1::synthesize returns NotEnoughColumnsForConstants and the backend gets no
\* assign_fixed and no copy for any constant.
C2_NotEnoughColumns ==
    (Pass2Returned /\ Cardinality(FreePositions) < Len(plan_constants)) =>
        /\ result = "NotEnoughColumnsForConstants"
        /\ ConstantEvents = <<>>
C2_Witness ==
    /\ result = "NotEnoughColumnsForConstants"
    /\ Cardinality(FreePositions) = 1 /\ Len(plan_constants) = 2

\* the number (from 0) of the assign_region call whose closure holds script position i
RegionCallOf(i) == Cardinality({x \in 1..i : script[x].e = "assign_region"}) - 1

\* C3: in pass 2 an enable_selector, assign_advice or assign_fixed issued through
\* the handle of the n-th assign_region call at offset o reaches the backend on the
\* same column at row regions[n] + o, and the Cell returned is (n, o, column).
C3_AbsoluteRows ==
    ip >= 1 =>
        /\ \A i \in DOMAIN log :
            (log[i].by = "region"
                /\ log[i].call \in {"enable_selector", "assign_advice", "assign_fixed"}) =>
                LET call == script[log[i].at]
                    n == RegionCallOf(log[i].at)
                IN /\ log[i].col = call.col
                   /\ n + 1 \in DOMAIN regions
                   /\ log[i].row = regions[n + 1] + call.off
        /\ \A j \in DOMAIN returned :
            LET call == script[returned[j].at]
            IN returned[j].cell = Cell(RegionCallOf(returned[j].at), call.off, call.col)
C3_Witness ==
    \E i \in DOMAIN log :
        /\ log[i].by = "region" /\ log[i].call = "assign_advice" /\ log[i].ok
        /\ script[log[i].at].off = 1
        /\ RegionCallOf(log[i].at) = 1
        /\ regions[2] > 0

\* C4: the pass-2 counter matches the enumeration of the measurement pass: once the
\* calls of pass 1 have all been issued again in pass 2, closures that fail
\* included, the counter equals the number of shapes pass 1 recorded.
C4_CounterMatchesShapes ==
    Pass2Returned => region_index = Len(measure_regions)

\* C5: region brackets are balanced: when assign_region or assign_table has
\* returned, with Ok or with an error, its enter_region was followed by an
\* exit_region, and the backend never gets two enter_region calls with no
\* exit_region between them.
C5_BracketsBalanced ==
    /\ (ip >= 1 /\ ctx = "top") => ~BackendInRegion
    /\ \A i, j \in DOMAIN log :
        (i < j /\ log[i].call = "enter_region" /\ log[j].call = "enter_region") =>
            \E x \in (i + 1)..(j - 1) : log[x].call = "exit_region"

\* C6: during the measurement pass the backend receives no call: assign_table,
\* constrain_instance and the namespace calls do nothing, get_challenge returns an
\* unknown value and assign_region only records a shape.
C6_MeasurementSendsNothing ==
    ip = 0 =>
        /\ log = <<>>
        /\ plan_constants = <<>> /\ table_columns = <<>> /\ table = NoTable
        /\ region_index = 0
        /\ \A i \in DOMAIN script : script[i].e = "get_challenge" => script[i].k = "unknown"
        /\ Len(measure_regions) =
             Cardinality({i \in DOMAIN script : script[i].e = "ret" /\ script[i].ok})
C6_Witness ==
    /\ pc = "plan" /\ Len(measure_regions) = 1
    /\ \E i, j \in DOMAIN script :
        script[i].e = "assign_table" /\ script[j].e = "constrain_instance"

\* C7: V1::synthesize runs its phases in a fixed order: measurement, placement,
\* one run of the real circuit, constant wiring; the backend gets the writes of
\* the regions before those of the constants, and no phase is entered twice.
C7_Step ==
    /\ pc' # pc => <<pc, pc'>> \in {<<"measure", "plan">>, <<"measure", "done">>,
                                   <<"plan", "assign">>, <<"assign", "wire">>,
                                   <<"assign", "done">>, <<"wire", "done">>}
    /\ pc = "plan" => regions = <<>> /\ log = <<>> /\ ip = 0
    /\ pc' = "assign" /\ pc = "plan" =>
           /\ Len(regions') = Len(measure_regions) /\ ip' = 1
    /\ \A i \in (Len(log) + 1)..Len(log') :
           IF log'[i].by = "constant" THEN pc = "wire" ELSE pc = "assign"
    /\ SubSeq(log', 1, Len(log)) = log
C7_PhaseOrder == [][C7_Step]_vars
C7_Witness ==
    /\ result = "Ok" /\ ConstantEvents # <<>>
    /\ \E i \in DOMAIN log : log[i].by = "region"

\* ====================================================================
\* Expression (plonk/circuit.rs)
\* ====================================================================
Constant(v) == [t |-> "Constant", v |-> v]
SelectorExpr(i, simple) == [t |-> "Selector", index |-> i, simple |-> simple]
\* a query leaf; `index` is an Option: <<>> is None, <<i>> is Some(i)
FixedExpr(ix, c, rot) == [t |-> "Fixed", index |-> ix, column_index |-> c, rotation |-> rot]
AdviceExpr(ix, c, rot) == [t |-> "Advice", index |-> ix, column_index |-> c, rotation |-> rot]
InstanceExpr(ix, c, rot) ==
    [t |-> "Instance", index |-> ix, column_index |-> c, rotation |-> rot]
ChallengeExpr(i, phase) == [t |-> "Challenge", index |-> i, phase |-> phase]
Negated(a) == [t |-> "Negated", a |-> a]
Sum(a, b) == [t |-> "Sum", a |-> a, b |-> b]
Product(a, b) == [t |-> "Product", a |-> a, b |-> b]
Scaled(a, f) == [t |-> "Scaled", a |-> a, f |-> f]
\* the outcome of an operator that panicked
Panicked == [t |-> "panic"]

\* Expression::contains_simple_selector, the fold of `evaluate`
RECURSIVE contains_simple_selector(_)
contains_simple_selector(e) ==
    CASE e.t = "Selector" -> e.simple
      [] e.t \in {"Negated", "Scaled"} -> contains_simple_selector(e.a)
      [] e.t \in {"Sum", "Product"} ->
            contains_simple_selector(e.a) \/ contains_simple_selector(e.b)
      [] OTHER -> FALSE

\* Expression::extract_simple_selector: None, Some(selector), or a panic
None == [t |-> "None"]
extract_op(a, b) ==
    IF a = Panicked \/ b = Panicked THEN Panicked
    ELSE IF a # None /\ b # None THEN Panicked
    ELSE IF a # None THEN a ELSE b
RECURSIVE extract_simple_selector(_)
extract_simple_selector(e) ==
    CASE e.t = "Selector" -> IF e.simple THEN e ELSE None
      [] e.t \in {"Negated", "Scaled"} -> extract_simple_selector(e.a)
      [] e.t \in {"Sum", "Product"} ->
            extract_op(extract_simple_selector(e.a), extract_simple_selector(e.b))
      [] OTHER -> None

\* faulty variant: the degree of a sum is the sum of the degrees
RECURSIVE degree_sum_adds(_)
degree_sum_adds(e) ==
    CASE e.t \in {"Constant", "Challenge"} -> 0
      [] e.t \in {"Selector", "Fixed", "Advice", "Instance"} -> 1
      [] e.t \in {"Negated", "Scaled"} -> degree_sum_adds(e.a)
      [] e.t \in {"Sum", "Product"} -> degree_sum_adds(e.a) + degree_sum_adds(e.b)
\* Expression::degree
RECURSIVE degree(_)
degree(e) ==
    CASE e.t \in {"Constant", "Challenge"} -> 0
      [] e.t \in {"Selector", "Fixed", "Advice", "Instance"} -> 1
      [] e.t \in {"Negated", "Scaled"} -> degree(e.a)
      [] e.t = "Sum" -> Max(degree(e.a), degree(e.b))
      [] e.t = "Product" -> degree(e.a) + degree(e.b)

\* impl Neg, Add, Sub, Mul, Mul<F> for Expression
Neg(a) == Negated(a)
\* faulty variant: the addition panics only when both operands hold a simple selector
Add_both(a, b) ==
    IF contains_simple_selector(a) /\ contains_simple_selector(b)
    THEN Panicked ELSE Sum(a, b)
Add(a, b) ==
    IF contains_simple_selector(a) \/ contains_simple_selector(b)
    THEN Panicked ELSE Sum(a, b)
Sub(a, b) ==
    IF contains_simple_selector(a) \/ contains_simple_selector(b)
    THEN Panicked ELSE Sum(a, Negated(b))
\* faulty variant: the multiplication does not look for simple selectors
Mul_unchecked(a, b) == Product(a, b)
Mul(a, b) ==
    IF contains_simple_selector(a) /\ contains_simple_selector(b)
    THEN Panicked ELSE Product(a, b)
MulScalar(a, f) == Scaled(a, f)

\* Iterator::reduce with one of the operators: a panic ends it
RECURSIVE Reduce(_, _, _)
Reduce(op(_, _), acc, rest) ==
    IF rest = <<>> \/ acc = Panicked THEN acc
    ELSE Reduce(op, op(acc, Head(rest)), Tail(rest))
\* faulty variant: the sum is folded from the right
RECURSIVE sum_from_right(_)
sum_from_right(iter) ==
    IF iter = <<>> THEN Constant(0)
    ELSE IF Len(iter) = 1 THEN Head(iter)
    ELSE LET rest == sum_from_right(Tail(iter)) IN
         IF rest = Panicked THEN Panicked ELSE Add(Head(iter), rest)
\* impl Sum for Expression
sum(iter) ==
    IF iter = <<>> THEN Constant(0) ELSE Reduce(Add, Head(iter), Tail(iter))
\* impl Product for Expression
product(iter) ==
    IF iter = <<>> THEN Constant(1) ELSE Reduce(Mul, Head(iter), Tail(iter))

\* ------------------------------------------------ SpecExpr: building expressions
\* the leaves and scalars the circuit builds its expressions from
Leaves == {Constant(1), SelectorExpr(0, TRUE), SelectorExpr(1, TRUE),
           SelectorExpr(2, FALSE), AdviceExpr(<<0>>, 0, 0), FixedExpr(<<0>>, 0, 0),
           ChallengeExpr(0, 0)}
Scalars == {2}
RECURSIVE Nodes(_)
Nodes(e) ==
    CASE e.t \in {"Negated", "Scaled"} -> 1 + Nodes(e.a)
      [] e.t \in {"Sum", "Product"} -> 1 + Nodes(e.a) + Nodes(e.b)
      [] OTHER -> 1
RECURSIVE HeldNodes(_)
HeldNodes(held) == IF held = <<>> THEN 0 ELSE Nodes(Head(held)) + HeldNodes(Tail(held))

ExprInit ==
    /\ exprs = <<>> /\ last = NoLast
    /\ pc = "expr" /\ ctx = "top" /\ result = "none" /\ script = <<>> /\ ip = 0
    /\ constants = <<>> /\ measure_regions = <<>> /\ shape = NoShape
    /\ regions = <<>> /\ column_allocations = {} /\ region_index = 0 /\ cur_region = 0
    /\ plan_constants = <<>> /\ table_columns = <<>> /\ table = NoTable
    /\ returned = <<>> /\ wire_i = 0 /\ log = <<>> /\ cs = NoCS /\ selectors = <<>>

Running == ~last.panic
Top == exprs[Len(exprs)]
Below == exprs[Len(exprs) - 1]
Applied(op, a, b, out) ==
    /\ last' = [op |-> op, a |-> a, b |-> b, out |-> out, panic |-> out = Panicked]
    /\ UNCHANGED <<pvars, cvars>>

\* the circuit writes down a leaf
ExprLeaf ==
    /\ Running /\ Len(exprs) < MaxHeld /\ HeldNodes(exprs) < MaxNodes
    /\ \E l \in Leaves :
        /\ exprs' = Append(exprs, l)
        /\ Applied("leaf", l, l, l)

Unary(op, out) ==
    /\ Running /\ exprs # <<>> /\ HeldNodes(exprs) <= MaxNodes
    /\ exprs' = [exprs EXCEPT ![Len(exprs)] = out]
    /\ Applied(op, Top, Top, out)
ExprNeg == Unary("neg", Neg(Top))
ExprMulScalar == \E f \in Scalars : Unary("scale", MulScalar(Top, f))

Binary(op, out) ==
    /\ Running /\ Len(exprs) >= 2 /\ HeldNodes(exprs) <= MaxNodes
    /\ exprs' = IF out = Panicked THEN exprs
                ELSE Append(SubSeq(exprs, 1, Len(exprs) - 2), out)
    /\ Applied(op, Below, Top, out)
ExprAdd == Binary("add", Add(Below, Top))
ExprSub == Binary("sub", Sub(Below, Top))
ExprMul == Binary("mul", Mul(Below, Top))

\* the iterators the circuit sums and multiplies: the expressions it holds,
\* followed by at most one leaf
Iterators == {exprs} \cup {Append(exprs, l) : l \in Leaves}
Folded(op, iter, out) ==
    /\ Running /\ HeldNodes(exprs) <= MaxNodes
    /\ exprs' = IF out = Panicked THEN exprs ELSE <<out>>
    /\ Applied(op, iter, iter, out)
ExprSum == \E iter \in Iterators : Folded("sum", iter, sum(iter))
ExprProduct == \E iter \in Iterators : Folded("product", iter, product(iter))

\* extract_simple_selector applied to an expression the circuit built
ExprExtract ==
    /\ Running /\ exprs # <<>> /\ last.op # "extract"
    /\ UNCHANGED exprs
    /\ Applied("extract", Top, Top, extract_simple_selector(Top))

ExprNext ==
    \/ ExprLeaf \/ ExprNeg \/ ExprMulScalar \/ ExprAdd \/ ExprSub \/ ExprMul \/ ExprExtract
    \/ ExprSum \/ ExprProduct
SpecExpr == ExprInit /\ [][ExprNext]_vars

\* ------------------------------------------ SpecEval: evaluating expressions
\* Expression::complexity
RECURSIVE complexity(_)
complexity(e) ==
    CASE e.t \in {"Constant", "Challenge"} -> 0
      [] e.t \in {"Selector", "Fixed", "Advice", "Instance"} -> 1
      [] e.t = "Negated" -> complexity(e.a) + 5
      [] e.t = "Sum" -> complexity(e.a) + complexity(e.b) + 15
      [] e.t = "Product" -> complexity(e.a) + complexity(e.b) + 30
      [] e.t = "Scaled" -> complexity(e.a) + 30

\* the sets of callables the caller passes; T is the integers modulo 3:
\* "field" is the arithmetic modulo 3 with the sentinel 0; "left" has the sentinel 0
\* and a product that returns its left operand unless an operand is 0; "one" is
\* the arithmetic modulo 3 with the sentinel 1
Callables == {"field", "left", "one"}
Values == 0..2
\* the `zero` argument
Sentinel(I) == IF I = "one" THEN 1 ELSE 0
\* the name of the callable of a leaf
LeafCallable(e) ==
    CASE e.t = "Constant" -> "constant"
      [] e.t = "Selector" -> "selector_column"
      [] e.t = "Fixed" -> "fixed_column"
      [] e.t = "Advice" -> "advice_column"
      [] e.t = "Instance" -> "instance_column"
      [] e.t = "Challenge" -> "challenge"
\* the value the callable of a leaf returns
LeafValue(e) ==
    CASE e.t = "Constant" -> e.v % 3
      [] e.t = "Selector" -> e.index % 3
      [] e.t = "Fixed" -> 2
      [] e.t = "Advice" -> 0
      [] e.t = "Instance" -> 1
      [] e.t = "Challenge" -> 2
\* the value the callable f of the set I returns for (x, y)
Call(I, f, x, y) ==
    CASE f = "negated" -> (3 - x) % 3
      [] f = "sum" -> (x + y) % 3
      [] f = "scaled" -> (x * y) % 3
      [] f = "product" ->
            IF I = "left" THEN (IF x = 0 \/ y = 0 THEN 0 ELSE x) ELSE (x * y) % 3
\* one invocation of a callable, as the caller observes it
Invoked(f, x, y) == [f |-> f, x |-> x, y |-> y]
\* the result of an evaluation: the value returned and the callables invoked, in order
Leaf(e) == [v |-> LeafValue(e), calls |-> <<Invoked(LeafCallable(e), LeafValue(e), 0)>>]
Node1(I, f, a, y) ==
    [v |-> Call(I, f, a.v, y), calls |-> Append(a.calls, Invoked(f, a.v, y))]
Node2(I, f, a, b) ==
    [v |-> Call(I, f, a.v, b.v), calls |-> Append(a.calls \o b.calls, Invoked(f, a.v, b.v))]

\* Expression::evaluate
RECURSIVE evaluate(_, _)
evaluate(e, I) ==
    CASE e.t = "Negated" -> Node1(I, "negated", evaluate(e.a, I), 0)
      [] e.t = "Sum" -> Node2(I, "sum", evaluate(e.a, I), evaluate(e.b, I))
      [] e.t = "Product" -> Node2(I, "product", evaluate(e.a, I), evaluate(e.b, I))
      [] e.t = "Scaled" -> Node1(I, "scaled", evaluate(e.a, I), e.f)
      [] OTHER -> Leaf(e)

\* faulty variant: the right operand goes first on a tie
lazy_order_right_on_tie(a, b) == IF complexity(a) < complexity(b) THEN <<a, b>> ELSE <<b, a>>

\* Expression::evaluate_lazy, the order of the operands of a Product
lazy_order(a, b) == IF complexity(a) <= complexity(b) THEN <<a, b>> ELSE <<b, a>>

\* Expression::evaluate_lazy
RECURSIVE evaluate_lazy(_, _)
evaluate_lazy(e, I) ==
    CASE e.t = "Negated" -> Node1(I, "negated", evaluate_lazy(e.a, I), 0)
      [] e.t = "Sum" -> Node2(I, "sum", evaluate_lazy(e.a, I), evaluate_lazy(e.b, I))
      [] e.t = "Product" ->
            LET o == lazy_order(e.a, e.b)
                a == evaluate_lazy(o[1], I)
            IN IF a.v = Sentinel(I) THEN a
               ELSE Node2(I, "product", a, evaluate_lazy(o[2], I))
      [] e.t = "Scaled" -> Node1(I, "scaled", evaluate_lazy(e.a, I), e.f)
      [] OTHER -> Leaf(e)

\* the circuit evaluates the expression it built last
Evaluated(op, I, out) ==
    /\ Running /\ exprs # <<>>
    /\ last' = [op |-> op, a |-> Top, b |-> [t |-> "callables", name |-> I], out |-> out,
                panic |-> FALSE]
    /\ UNCHANGED <<pvars, exprs, cvars>>
ExprEvaluate == \E I \in Callables : Evaluated("evaluate", I, evaluate(Top, I))
ExprEvaluateLazy == \E I \in Callables : Evaluated("evaluate_lazy", I, evaluate_lazy(Top, I))
EvalNext == ExprEvaluate \/ ExprEvaluateLazy
SpecEval == ExprInit /\ [][ExprNext \/ EvalNext]_vars

\* ---------------------------------- claim about evaluate_lazy (checked under SpecEval)
RECURSIVE HasProduct(_)
HasProduct(e) ==
    CASE e.t = "Product" -> TRUE
      [] e.t \in {"Negated", "Scaled"} -> HasProduct(e.a)
      [] e.t = "Sum" -> HasProduct(e.a) \/ HasProduct(e.b)
      [] OTHER -> FALSE
\* the product of the callables I is commutative
Commutative(I) == \A x, y \in Values : Call(I, "product", x, y) = Call(I, "product", y, x)
\* the sentinel of the callables I is absorbing for their product
Absorbing(I) ==
    \A x \in Values :
        /\ Call(I, "product", Sentinel(I), x) = Sentinel(I)
        /\ Call(I, "product", x, Sentinel(I)) = Sentinel(I)
\* what evaluate_lazy returned for e is put together from what it returns for the
\* operands of e
LazyAt(e, I, out) ==
    CASE e.t \in {"Negated", "Scaled"} ->
            LET a == evaluate_lazy(e.a, I) IN
            /\ Len(out.calls) = Len(a.calls) + 1
            /\ SubSeq(out.calls, 1, Len(a.calls)) = a.calls
            /\ out.calls[Len(out.calls)].f = (IF e.t = "Negated" THEN "negated" ELSE "scaled")
            /\ out.calls[Len(out.calls)].x = a.v
            /\ out.v = Call(I, out.calls[Len(out.calls)].f, a.v,
                            IF e.t = "Scaled" THEN e.f ELSE 0)
      [] e.t = "Sum" ->
            LET a == evaluate_lazy(e.a, I)
                b == evaluate_lazy(e.b, I)
            IN /\ out.calls = a.calls \o b.calls \o <<Invoked("sum", a.v, b.v)>>
               /\ out.v = Call(I, "sum", a.v, b.v)
      [] e.t = "Product" ->
            LET left_first == complexity(e.a) <= complexity(e.b)
                first == evaluate_lazy(IF left_first THEN e.a ELSE e.b, I)
                other == evaluate_lazy(IF left_first THEN e.b ELSE e.a, I)
            IN IF first.v = Sentinel(I)
               THEN out = first
               ELSE /\ out.calls =
                         first.calls \o other.calls \o <<Invoked("product", first.v, other.v)>>
                    /\ out.v = Call(I, "product", first.v, other.v)
      [] OTHER -> out = evaluate(e, I)
\* C35: evaluate_lazy invokes the callables as evaluate does, except at a Product:
\* there the operand of lower complexity, the left one on a tie, is evaluated first
\* and, when its value is the sentinel, is the result, no callable being invoked for
\* the other operand. For an expression without Product the two agree call for call,
\* and they return the same value whenever the product of the callables is
\* commutative and the sentinel is absorbing.
C35_LazyEvaluation ==
    last.op = "evaluate_lazy" =>
        LET e == last.a
            I == last.b.name
        IN /\ LazyAt(e, I, last.out)
           /\ ~HasProduct(e) => last.out = evaluate(e, I)
           /\ (Commutative(I) /\ Absorbing(I)) => last.out.v = evaluate(e, I).v
\* a Product whose right operand is the simpler one and evaluates to the sentinel:
\* the callables of the left operand were not invoked
C35_Witness ==
    /\ last.op = "evaluate_lazy" /\ last.a.t = "Product"
    /\ complexity(last.a.a) > complexity(last.a.b)
    /\ Commutative(last.b.name) /\ Absorbing(last.b.name)
    /\ last.out = evaluate_lazy(last.a.b, last.b.name)
    /\ last.out.v = Sentinel(last.b.name)
    /\ Len(last.out.calls) < Len(evaluate(last.a, last.b.name).calls)

\* ====================================================================
\* Claims about the expression operators (checked under SpecExpr)
\* ====================================================================
\* the leaves of an expression, with their multiplicity
RECURSIVE SimpleLeaves(_)
SimpleLeaves(e) ==
    CASE e.t = "Selector" -> IF e.simple THEN 1 ELSE 0
      [] e.t \in {"Negated", "Scaled"} -> SimpleLeaves(e.a)
      [] e.t \in {"Sum", "Product"} -> SimpleLeaves(e.a) + SimpleLeaves(e.b)
      [] OTHER -> 0

\* C8: a + b and a - b panic exactly when a or b holds a simple selector, a * b
\* exactly when both do, and negation and scaling never panic.
C8_Quarantine ==
    /\ last.op \in {"add", "sub"} =>
        /\ last.panic <=> (SimpleLeaves(last.a) > 0 \/ SimpleLeaves(last.b) > 0)
        /\ ~last.panic => last.out = IF last.op = "add" THEN Sum(last.a, last.b)
                                     ELSE Sum(last.a, Negated(last.b))
    /\ last.op = "mul" =>
        /\ last.panic <=> (SimpleLeaves(last.a) > 0 /\ SimpleLeaves(last.b) > 0)
        /\ ~last.panic => last.out = Product(last.a, last.b)
    /\ last.op \in {"neg", "scale"} => ~last.panic
C8_Witness ==
    /\ last.op = "add" /\ last.panic
    /\ last.a.t = "Product" /\ SimpleLeaves(last.b) = 0

\* C10: an expression built with the operators holds at most one simple-selector
\* leaf, so extract_simple_selector returns that selector or None and never panics.
C10_OneSimpleSelector ==
    /\ \A i \in DOMAIN exprs :
        /\ SimpleLeaves(exprs[i]) <= 1
        /\ extract_simple_selector(exprs[i]) # Panicked
        /\ SimpleLeaves(exprs[i]) = 0 <=> extract_simple_selector(exprs[i]) = None
    /\ last.op = "extract" => ~last.panic
C10_Witness ==
    /\ last.op = "extract" /\ last.a.t = "Product" /\ last.a.b.t = "Negated"
    /\ last.out = SelectorExpr(1, TRUE)

\* the left-associated tree of a non-empty list of expressions under a constructor
RECURSIVE LeftTree(_, _)
LeftTree(node(_, _), items) ==
    IF Len(items) = 1 THEN items[1]
    ELSE node(LeftTree(node, SubSeq(items, 1, Len(items) - 1)), items[Len(items)])
NoSimpleSelectors(items) == \A i \in DOMAIN items : SimpleLeaves(items[i]) = 0

\* C16: the sum (product) of an iterator of expressions without simple selectors is
\* Constant(0) (Constant(1)) when it is empty, its only item when it has one, and
\* otherwise the left-associated Sum (Product) tree of its items.
C16_IteratorFolds ==
    (last.op \in {"sum", "product"} /\ NoSimpleSelectors(last.a)) =>
        /\ ~last.panic
        /\ last.a = <<>> => last.out = Constant(IF last.op = "sum" THEN 0 ELSE 1)
        /\ Len(last.a) = 1 => last.out = last.a[1]
        /\ (last.a # <<>> /\ last.op = "sum") => last.out = LeftTree(Sum, last.a)
        /\ (last.a # <<>> /\ last.op = "product") => last.out = LeftTree(Product, last.a)
C16_Witness ==
    /\ last.op = "sum" /\ Len(last.a) = 3 /\ NoSimpleSelectors(last.a)
    /\ last.out = Sum(Sum(last.a[1], last.a[2]), last.a[3])
    /\ last.a[1] # last.a[2] /\ last.a[2] # last.a[3]

\* C17: constants and challenges have degree 0, queries and selectors degree 1;
\* the degree of a + b and a - b is the larger of the two degrees, of a * b their
\* sum, and of -a and a * k the degree of a.
C17_DegreeAlgebra ==
    /\ last.op = "leaf" =>
        degree(last.out) = IF last.out.t \in {"Constant", "Challenge"} THEN 0 ELSE 1
    /\ (last.op \in {"add", "sub"} /\ ~last.panic) =>
        degree(last.out) = Max(degree(last.a), degree(last.b))
    /\ (last.op = "mul" /\ ~last.panic) =>
        degree(last.out) = degree(last.a) + degree(last.b)
    /\ (last.op \in {"neg", "scale"}) => degree(last.out) = degree(last.a)
C17_Witness ==
    /\ last.op = "sub" /\ ~last.panic
    /\ degree(last.a) = 2 /\ degree(last.b) = 0 /\ degree(last.out) = 2

\* ====================================================================
\* ConstraintSystem (plonk/circuit.rs)
\* ====================================================================
RECURSIVE IndexOf(_, _, _)
IndexOf(seq, x, i) ==
    IF i > Len(seq) THEN 0 ELSE IF seq[i] = x THEN i ELSE IndexOf(seq, x, i + 1)

\* query_fixed_index / query_advice_index: the index of the query, interned
query_fixed_index(c, col, at) ==
    LET found == IndexOf(c.fixed_queries, <<col, at>>, 1) IN
    IF found > 0 THEN [meta |-> c, index |-> found - 1]
    ELSE [meta |-> [c EXCEPT !.fixed_queries = Append(@, <<col, at>>)],
          index |-> Len(c.fixed_queries)]
\* faulty variant: every call makes a new query
query_advice_index_fresh(c, col, at) ==
    [meta |-> [c EXCEPT !.advice_queries = Append(@, <<col, at>>),
                        !.num_advice_queries[col + 1] = @ + 1],
     index |-> Len(c.advice_queries)]
query_advice_index(c, col, at) ==
    LET found == IndexOf(c.advice_queries, <<col, at>>, 1) IN
    IF found > 0 THEN [meta |-> c, index |-> found - 1]
    ELSE [meta |-> [c EXCEPT !.advice_queries = Append(@, <<col, at>>),
                             !.num_advice_queries[col + 1] = @ + 1],
          index |-> Len(c.advice_queries)]

query_instance_index(c, col, at) ==
    LET found == IndexOf(c.instance_queries, <<col, at>>, 1) IN
    IF found > 0 THEN [meta |-> c, index |-> found - 1]
    ELSE [meta |-> [c EXCEPT !.instance_queries = Append(@, <<col, at>>)],
          index |-> Len(c.instance_queries)]
\* query_any_index, for a Column<Any>
query_any_index(c, column, at) ==
    CASE column.ct = "Advice" -> query_advice_index(c, column.index, at)
      [] column.ct = "Fixed" -> query_fixed_index(c, column.index, at)
      [] column.ct = "Instance" -> query_instance_index(c, column.index, at)

\* VirtualCells: the constraint system and what the closure queried
VirtualCells(c) == [meta |-> c, queried_selectors |-> <<>>, queried_cells |-> <<>>]
query_selector(vc, sel) ==
    [vc |-> [vc EXCEPT !.queried_selectors = Append(@, sel)],
     expr |-> SelectorExpr(sel.index, sel.simple)]
query_fixed(vc, col, at) ==
    LET q == query_fixed_index(vc.meta, col, at) IN
    [vc |-> [vc EXCEPT !.meta = q.meta,
                       !.queried_cells = Append(@, <<"Fixed", col, at>>)],
     expr |-> FixedExpr(<<q.index>>, col, at)]
query_advice(vc, col, at) ==
    LET q == query_advice_index(vc.meta, col, at) IN
    [vc |-> [vc EXCEPT !.meta = q.meta,
                       !.queried_cells = Append(@, <<"Advice", col, at>>)],
     expr |-> AdviceExpr(<<q.index>>, col, at)]

\* Expression::query_cells: interns the queries of the expression that have no index
RECURSIVE query_cells(_, _)
query_cells(e, vc) ==
    CASE e.t = "Selector" ->
            LET sel == [index |-> e.index, simple |-> e.simple] IN
            [vc |-> IF IndexOf(vc.queried_selectors, sel, 1) > 0 THEN vc
                    ELSE [vc EXCEPT !.queried_selectors = Append(@, sel)],
             expr |-> e]
      [] e.t = "Fixed" ->
            IF e.index # <<>> THEN [vc |-> vc, expr |-> e]
            ELSE query_fixed(vc, e.column_index, e.rotation)
      [] e.t = "Advice" ->
            IF e.index # <<>> THEN [vc |-> vc, expr |-> e]
            ELSE query_advice(vc, e.column_index, e.rotation)
      [] e.t = "Instance" ->
            IF e.index # <<>> THEN [vc |-> vc, expr |-> e]
            ELSE LET q == query_instance_index(vc.meta, e.column_index, e.rotation) IN
                 [vc |-> [vc EXCEPT !.meta = q.meta, !.queried_cells =
                             Append(@, <<"Instance", e.column_index, e.rotation>>)],
                  expr |-> [e EXCEPT !.index = <<q.index>>]]
      [] e.t \in {"Negated", "Scaled"} ->
            LET a == query_cells(e.a, vc) IN
            [vc |-> a.vc, expr |-> [e EXCEPT !.a = a.expr]]
      [] e.t \in {"Sum", "Product"} ->
            LET a == query_cells(e.a, vc)
                b == query_cells(e.b, a.vc) IN
            [vc |-> b.vc, expr |-> [e EXCEPT !.a = a.expr, !.b = b.expr]]
      [] OTHER -> [vc |-> vc, expr |-> e]

\* replace_selectors, the fold of replace_selectors_with_fixed over one expression
RECURSIVE replace_selectors(_, _, _)
replace_selectors(e, selector_replacements, must_be_nonsimple) ==
    LET sub(x) == replace_selectors(x, selector_replacements, must_be_nonsimple)
        lift1(a, out) == IF a = Panicked THEN Panicked ELSE out
        lift2(a, b, out) == IF a = Panicked \/ b = Panicked THEN Panicked ELSE out
    IN
    CASE e.t = "Selector" ->
            IF must_be_nonsimple /\ e.simple THEN Panicked
            ELSE IF e.index + 1 \in DOMAIN selector_replacements
                 THEN selector_replacements[e.index + 1] ELSE Panicked
      [] e.t = "Negated" -> LET a == sub(e.a) IN lift1(a, Neg(a))
      [] e.t = "Scaled" -> LET a == sub(e.a) IN lift1(a, MulScalar(a, e.f))
      [] e.t = "Sum" -> LET a == sub(e.a) b == sub(e.b) IN lift2(a, b, Add(a, b))
      [] e.t = "Product" -> LET a == sub(e.a) b == sub(e.b) IN lift2(a, b, Mul(a, b))
      [] OTHER -> e

\* the expressions of a list of arguments, each a list of (input, table) pairs
MapPairs(args, f(_)) ==
    [i \in DOMAIN args |->
        [j \in DOMAIN args[i] |-> [input |-> f(args[i][j].input),
                                   table |-> f(args[i][j].table)]]]
AnyPanicked(args) ==
    \E i \in DOMAIN args : \E j \in DOMAIN args[i] :
        args[i][j].input = Panicked \/ args[i][j].table = Panicked

\* faulty variant: only the gates are rewritten
replace_selectors_with_fixed_gates_only(c, selector_replacements) ==
    [c EXCEPT !.gates = [g \in DOMAIN @ |-> [@[g] EXCEPT !.polys =
        [k \in DOMAIN @ |-> replace_selectors(@[k], selector_replacements, FALSE)]]]]
\* ConstraintSystem::replace_selectors_with_fixed
replace_selectors_with_fixed(c, selector_replacements) ==
    LET gate(x) == replace_selectors(x, selector_replacements, FALSE)
        arg(x) == replace_selectors(x, selector_replacements, TRUE)
        gates == [g \in DOMAIN c.gates |->
                    [c.gates[g] EXCEPT !.polys = [k \in DOMAIN @ |-> gate(@[k])]]]
        lookups == MapPairs(c.lookups, arg)
        shuffles == MapPairs(c.shuffles, arg)
    IN  IF \/ \E g \in DOMAIN gates : \E k \in DOMAIN gates[g].polys :
                  gates[g].polys[k] = Panicked
           \/ AnyPanicked(lookups) \/ AnyPanicked(shuffles)
        THEN [c EXCEPT !.panic = "assertion failed: !selector.is_simple()"]
        ELSE [c EXCEPT !.gates = gates, !.lookups = lookups, !.shuffles = shuffles]

\* ------------------------------------------------ SpecCS: configuring a circuit
CSInit ==
    /\ cs = NoCS /\ selectors = <<>>
    /\ exprs = <<>> /\ last = NoLast
    /\ pc = "configure" /\ ctx = "top" /\ result = "none" /\ script = <<>> /\ ip = 0
    /\ constants = <<>> /\ measure_regions = <<>> /\ shape = NoShape
    /\ regions = <<>> /\ column_allocations = {} /\ region_index = 0 /\ cur_region = 0
    /\ plan_constants = <<>> /\ table_columns = <<>> /\ table = NoTable
    /\ returned = <<>> /\ wire_i = 0 /\ log = <<>>

\* the phases a circuit can name: FirstPhase, SecondPhase, ThirdPhase
Phases == {0, 1, 2}
\* the degrees handed to set_minimum_degree
MinimumDegrees == {0, 6}
\* the rotations at which the closures query a cell
Rotations == <<-1, 0, 1, 2>>

\* what the circuit has built so far: columns, selectors, challenges, arguments,
\* equality-enabled columns and the minimum degree
Size ==
    cs.num_fixed_columns + cs.num_advice_columns + cs.num_instance_columns
    + cs.num_selectors + cs.num_challenges
    + Len(cs.gates) + Len(cs.lookups) + Len(cs.shuffles)
    + Len(cs.permutation) + Len(cs.minimum_degree)
Configuring == cs.panic = "none" /\ ~cs.converted
CanBuild == Configuring /\ Size < MaxBuilderCalls
Arguments == Len(cs.gates) + Len(cs.lookups) + Len(cs.shuffles)
CSPanicked(msg) == [cs EXCEPT !.panic = msg]
\* a call of the builder: its name, argument, return value and the system it leaves
CSCall(op, arg, out, next) ==
    /\ cs' = next
    /\ last' = [op |-> op, a |-> arg, b |-> [t |-> "-"], out |-> out,
                panic |-> next.panic # "none"]
    /\ UNCHANGED <<pvars, exprs>>
NoValue == [t |-> "-"]

\* faulty variant: any advice column stands for the phase
assert_phase_exists_any(c, phase) == c.advice_column_phase # <<>>
\* ConstraintSystem::assert_phase_exists
assert_phase_exists(c, phase) ==
    \E i \in DOMAIN c.advice_column_phase : c.advice_column_phase[i] = phase

\* faulty variant: the new column gets no entry in num_advice_queries
advice_column_in_uncounted(c, phase, unblinded) ==
    [c EXCEPT !.num_advice_columns = @ + 1,
              !.advice_column_phase = Append(@, phase)]
\* advice_column_in and unblinded_advice_column_in once the phase is accepted
advice_column_in(c, phase, unblinded) ==
    [c EXCEPT !.num_advice_columns = @ + 1,
              !.num_advice_queries = Append(@, 0),
              !.advice_column_phase = Append(@, phase),
              !.unblinded_advice_columns =
                  IF unblinded THEN Append(@, c.num_advice_columns) ELSE @]
AdviceColumnIn(op, phase, unblinded) ==
    /\ CanBuild /\ cs.num_advice_columns < MaxColumns
    /\ IF phase > 0 /\ ~assert_phase_exists(cs, phase - 1)
       THEN CSCall(op, [phase |-> phase], NoValue,
                   CSPanicked("No Column<Advice> is used in phase"))
       ELSE CSCall(op, [phase |-> phase],
                   [index |-> cs.num_advice_columns, phase |-> phase],
                   advice_column_in(cs, phase, unblinded))
    /\ UNCHANGED selectors
\* ConstraintSystem::advice_column / advice_column_in
CSAdviceColumn == \E p \in Phases : AdviceColumnIn("advice_column_in", p, FALSE)
\* ConstraintSystem::unblinded_advice_column / unblinded_advice_column_in
CSUnblindedAdviceColumn ==
    \E p \in Phases : AdviceColumnIn("unblinded_advice_column_in", p, TRUE)

\* faulty variant: the phase of the challenge is not recorded
challenge_usable_after_unrecorded(c, phase) ==
    [c EXCEPT !.num_challenges = @ + 1]
\* challenge_usable_after once the phase is accepted
challenge_usable_after(c, phase) ==
    [c EXCEPT !.num_challenges = @ + 1, !.challenge_phase = Append(@, phase)]
\* ConstraintSystem::challenge_usable_after
CSChallengeUsableAfter ==
    /\ CanBuild
    /\ \E phase \in Phases :
        IF ~assert_phase_exists(cs, phase)
        THEN CSCall("challenge_usable_after", [phase |-> phase], NoValue,
                    CSPanicked("No Column<Advice> is used in phase"))
        ELSE CSCall("challenge_usable_after", [phase |-> phase],
                    [index |-> cs.num_challenges, phase |-> phase],
                    challenge_usable_after(cs, phase))
    /\ UNCHANGED selectors

\* the fixed columns handed out as TableColumn and as Column<Fixed>
TableColumnsOf(c) == {i \in 0..(c.num_fixed_columns - 1) : i \in c.tables}
FixedColumnsOf(c) == {i \in 0..(c.num_fixed_columns - 1) : i \notin c.tables}
\* faulty variant: the fixed column is handed out without being counted
fixed_column_uncounted(c) == c
\* ConstraintSystem::fixed_column: the system after the call, which returns the
\* column Col("Fixed", c.num_fixed_columns)
fixed_column(c) == [c EXCEPT !.num_fixed_columns = @ + 1]
CSFixedColumn ==
    /\ CanBuild /\ cs.num_fixed_columns < MaxColumns
    /\ CSCall("fixed_column", NoValue, Col("Fixed", cs.num_fixed_columns),
              fixed_column(cs))
    /\ UNCHANGED selectors
\* ConstraintSystem::lookup_table_column
CSLookupTableColumn ==
    /\ CanBuild /\ cs.num_fixed_columns < MaxColumns
    /\ CSCall("lookup_table_column", NoValue, Col("Fixed", cs.num_fixed_columns),
              [fixed_column(cs) EXCEPT !.tables = @ \cup {cs.num_fixed_columns}])
    /\ UNCHANGED selectors
\* ConstraintSystem::instance_column
CSInstanceColumn ==
    /\ CanBuild /\ cs.num_instance_columns < MaxColumns
    /\ CSCall("instance_column", NoValue, Col("Instance", cs.num_instance_columns),
              [cs EXCEPT !.num_instance_columns = @ + 1])
    /\ UNCHANGED selectors
NewSelector(simple) ==
    /\ CanBuild /\ cs.num_selectors < MaxSelectors
    /\ selectors' = Append(selectors, [index |-> cs.num_selectors, simple |-> simple])
    /\ CSCall("selector", [simple |-> simple],
              [index |-> cs.num_selectors, simple |-> simple],
              [cs EXCEPT !.num_selectors = @ + 1])
CSSelector == NewSelector(TRUE)
CSComplexSelector == NewSelector(FALSE)

\* permutation::Argument::add_column: the columns form a set
add_column(perm, column) ==
    IF \E i \in DOMAIN perm : perm[i] = column THEN perm ELSE Append(perm, column)
\* ConstraintSystem::enable_equality
enable_equality(c, column) ==
    [query_any_index(c, column, 0).meta EXCEPT !.permutation = add_column(@, column)]
\* faulty variant: a constant column is enabled again on every call
enable_constant_again(c, column) ==
    enable_equality([c EXCEPT !.constants = Append(@, column)], column)
\* ConstraintSystem::enable_constant
enable_constant(c, column) ==
    IF \E i \in DOMAIN c.constants : c.constants[i] = column THEN c
    ELSE enable_equality([c EXCEPT !.constants = Append(@, column)], column)
\* TableColumn::inner (a public method): the fixed column of the table column t
inner(t) == Col("Fixed", t)
\* the columns the circuit holds as Column<Advice>, Column<Fixed>, Column<Instance>:
\* those the allocating calls returned and those inner() gives
ColumnsOf(c) ==
    {Col("Advice", i) : i \in 0..(c.num_advice_columns - 1)}
    \cup {Col("Fixed", i) : i \in FixedColumnsOf(c)}
    \cup {inner(t) : t \in TableColumnsOf(c)}
    \cup {Col("Instance", i) : i \in 0..(c.num_instance_columns - 1)}
CSEnableEquality ==
    /\ CanBuild
    /\ \E column \in ColumnsOf(cs) :
        CSCall("enable_equality", column, NoValue, enable_equality(cs, column))
    /\ UNCHANGED selectors
CSEnableConstant ==
    /\ Configuring
    /\ \E column \in {x \in ColumnsOf(cs) : x.ct = "Fixed"} :
        /\ Size < MaxBuilderCalls \/ SeqContains(cs.constants, column)
        /\ CSCall("enable_constant", column, NoValue, enable_constant(cs, column))
    /\ UNCHANGED selectors
\* Iterator::max().unwrap_or(d) over the values of a set
MaxOr(S, d) == IF S = {} THEN d ELSE CHOOSE m \in S : \A x \in S : x <= m
\* permutation::Argument::required_degree
permutation_required_degree(perm) == 3
\* lookup::Argument::required_degree
lookup_required_degree(l) ==
    LET input_degree == MaxOr({degree(l[k].input) : k \in DOMAIN l} \cup {1}, 1)
        table_degree == MaxOr({degree(l[k].table) : k \in DOMAIN l} \cup {1}, 1) IN
    Max(4, 2 + input_degree + table_degree)
\* shuffle::Argument::required_degree
shuffle_required_degree(l) ==
    LET input_degree == MaxOr({degree(l[k].input) : k \in DOMAIN l} \cup {1}, 1)
        shuffle_degree == MaxOr({degree(l[k].table) : k \in DOMAIN l} \cup {1}, 1) IN
    Max(2 + shuffle_degree, 2 + input_degree)
\* the polynomials of all gates, and their degrees
StoredGatePolys(c) ==
    UNION {{c.gates[g].polys[k] : k \in DOMAIN c.gates[g].polys} : g \in DOMAIN c.gates}
GateDegrees(c) == {degree(p) : p \in StoredGatePolys(c)}
\* faulty variant: the gates are not accounted for
cs_degree_without_gates(c) ==
    LET d0 == permutation_required_degree(c.permutation)
        d1 == Max(d0, MaxOr({lookup_required_degree(c.lookups[i]) :
                                i \in DOMAIN c.lookups}, 1))
        d2 == Max(d1, MaxOr({shuffle_required_degree(c.shuffles[i]) :
                                i \in DOMAIN c.shuffles}, 1)) IN
    Max(d2, IF c.minimum_degree = <<>> THEN 1 ELSE c.minimum_degree[1])
\* ConstraintSystem::degree
cs_degree(c) ==
    LET d0 == permutation_required_degree(c.permutation)
        d1 == Max(d0, MaxOr({lookup_required_degree(c.lookups[i]) :
                                i \in DOMAIN c.lookups}, 1))
        d2 == Max(d1, MaxOr({shuffle_required_degree(c.shuffles[i]) :
                                i \in DOMAIN c.shuffles}, 1))
        d3 == Max(d2, MaxOr(GateDegrees(c), 0)) IN
    Max(d3, IF c.minimum_degree = <<>> THEN 1 ELSE c.minimum_degree[1])
\* faulty variant: the count is not raised to 3
blinding_factors_unfloored(c) ==
    MaxOr({c.num_advice_queries[i] : i \in DOMAIN c.num_advice_queries}, 1) + 1 + 1
\* ConstraintSystem::blinding_factors
blinding_factors(c) ==
    LET factors == MaxOr({c.num_advice_queries[i] : i \in DOMAIN c.num_advice_queries}, 1)
    IN  Max(3, factors) + 1 + 1
\* ConstraintSystem::minimum_rows
minimum_rows(c) == blinding_factors(c) + 1 + 1 + 1

\* ConstraintSystem::set_minimum_degree
CSSetMinimumDegree ==
    /\ CanBuild
    /\ \E d \in MinimumDegrees :
        CSCall("set_minimum_degree", [degree |-> d], NoValue,
               [cs EXCEPT !.minimum_degree = <<d>>])
    /\ UNCHANGED selectors

\* what a closure does with its VirtualCells to produce one expression: query an
\* advice column, query a selector, multiply a queried selector by the cell of a
\* column (Column::cur, not yet interned), or multiply the cells of one column at
\* all the rotations
Recipes ==
    {[k |-> "advice", i |-> 0, col |-> c] : c \in 0..(cs.num_advice_columns - 1)}
    \cup {[k |-> "selector", i |-> i, col |-> 0] : i \in DOMAIN selectors}
    \cup {[k |-> "product", i |-> i, col |-> 0] :
            i \in {x \in DOMAIN selectors : cs.num_advice_columns > 0}}
    \cup {[k |-> "rotations", i |-> 0, col |-> 0] :
            i \in {x \in {0} : cs.num_advice_columns > 0}}
RunRecipe(vc, r) ==
    CASE r.k = "advice" -> query_advice(vc, r.col, 0)
      [] r.k = "selector" -> query_selector(vc, selectors[r.i])
      [] r.k = "product" ->
            LET s == query_selector(vc, selectors[r.i]) IN
            [vc |-> s.vc, expr |-> Mul(s.expr, AdviceExpr(<<>>, r.col, 0))]
      [] r.k = "square" ->
            LET s == query_selector(vc, selectors[r.i])
                a == query_advice(s.vc, r.col, 0) IN
            [vc |-> a.vc, expr |-> Mul(Mul(s.expr, a.expr), a.expr)]
      [] r.k = "unused" ->
            LET a == query_advice(vc, r.col, Rotations[1])
                b == query_advice(a.vc, r.col, Rotations[2])
                c == query_advice(b.vc, r.col, Rotations[3])
                d == query_advice(c.vc, r.col, Rotations[4]) IN
            [vc |-> d.vc, expr |-> b.expr]
      [] r.k = "rotations" ->
            LET a == query_advice(vc, r.col, Rotations[1])
                b == query_advice(a.vc, r.col, Rotations[2])
                c == query_advice(b.vc, r.col, Rotations[3])
                d == query_advice(c.vc, r.col, Rotations[4]) IN
            [vc |-> d.vc, expr |-> Mul(Mul(Mul(a.expr, b.expr), c.expr), d.expr)]
\* the recipes a closure uses for the table side of a pair
TableRecipes == {r \in Recipes : r.k \in {"advice", "selector"}}

\* the closure of create_gate: it yields no constraint, one unnamed constraint, or
\* the same polynomial built twice under two names
GateClosures == {<<>>, <<"">>, <<"c0", "c1">>}
\* the closures of create_gate that build one constraint per selector: constraint j
\* is selector j times the cell of an advice column ("products"), the first of them
\* times that cell once more ("powers"); and the closure that queries a column at
\* all the rotations and uses one of the cells in its constraint ("unused")
GateRecipes ==
    Recipes \cup
    {[k |-> kind, i |-> 0, col |-> 0] :
        kind \in {x \in {"products", "powers"} :
                    Len(selectors) >= 2 /\ cs.num_advice_columns > 0}}
    \cup {[k |-> "unused", i |-> 0, col |-> 0] :
            i \in {x \in {0} : cs.num_advice_columns > 0}}
RecipeAt(r, j) ==
    IF r.k \in {"products", "powers"}
    THEN [k |-> IF r.k = "powers" /\ j = 1 THEN "square" ELSE "product",
          i |-> j, col |-> r.col]
    ELSE r
RECURSIVE RunConstraints(_, _, _, _)
RunConstraints(vc, r, names, polys) ==
    IF names = <<>> THEN [vc |-> vc, polys |-> polys]
    ELSE LET built == RunRecipe(vc, RecipeAt(r, Len(polys) + 1)) IN
         RunConstraints(built.vc, r, Tail(names), Append(polys, built.expr))
RECURSIVE QueryAll(_, _, _)
QueryAll(vc, polys, done) ==
    IF polys = <<>> THEN [vc |-> vc, polys |-> done]
    ELSE LET q == query_cells(Head(polys), vc) IN
         QueryAll(q.vc, Tail(polys), Append(done, q.expr))

\* faulty variant: a gate without constraints is accepted
gate_has_constraints_unchecked(polys) == TRUE
\* the assertion of create_gate: "Gates must contain at least one constraint."
gate_has_constraints(polys) == polys # <<>>
\* ConstraintSystem::create_gate
CSCreateGate ==
    /\ CanBuild /\ Arguments < MaxArguments
    /\ \E names \in GateClosures :
        \E r \in (IF names = <<>> THEN {[k |-> "none"]} ELSE GateRecipes) :
        LET built == RunConstraints(VirtualCells(cs), r, names, <<>>)
            q == QueryAll(built.vc, built.polys, <<>>) IN
        IF ~gate_has_constraints(q.polys)
        THEN CSCall("create_gate", [names |-> names], NoValue,
                    CSPanicked("Gates must contain at least one constraint."))
        ELSE CSCall("create_gate", [names |-> names], NoValue,
                [q.vc.meta EXCEPT !.gates = Append(@,
                      [name |-> "gate", constraint_names |-> names,
                       polys |-> q.polys,
                       queried_selectors |-> q.vc.queried_selectors,
                       queried_cells |-> q.vc.queried_cells])])
    /\ UNCHANGED selectors

\* ConstraintSystem::lookup with a closure yielding one (input, table column) pair
CSLookup ==
    /\ CanBuild /\ Arguments < MaxArguments
    /\ \E r \in Recipes, t \in TableColumnsOf(cs) :
        LET built == RunRecipe(VirtualCells(cs), r)
            tab == query_fixed(built.vc, t, 0)
            inp == query_cells(built.expr, tab.vc)
            tq == query_cells(tab.expr, inp.vc) IN
        IF contains_simple_selector(built.expr)
        THEN CSCall("lookup", [input |-> built.expr], NoValue, CSPanicked(
                "expression containing simple selector supplied to lookup argument"))
        ELSE CSCall("lookup", [input |-> built.expr], [index |-> Len(cs.lookups)],
                [tq.vc.meta EXCEPT !.lookups =
                        Append(@, <<[input |-> inp.expr, table |-> tq.expr]>>)])
    /\ UNCHANGED selectors

\* ConstraintSystem::lookup_any with a closure yielding one (input, table) pair
CSLookupAny ==
    /\ CanBuild /\ Arguments < MaxArguments
    /\ \E r \in Recipes, rt \in TableRecipes :
        LET built == RunRecipe(VirtualCells(cs), r)
            tab == RunRecipe(built.vc, rt)
            inp == query_cells(built.expr, tab.vc)
            tq == query_cells(tab.expr, inp.vc) IN
        IF contains_simple_selector(built.expr) \/ contains_simple_selector(tab.expr)
        THEN CSCall("lookup_any", [input |-> built.expr, table |-> tab.expr], NoValue,
                CSPanicked(
                "expression containing simple selector supplied to lookup argument"))
        ELSE CSCall("lookup_any", [input |-> built.expr, table |-> tab.expr],
                [index |-> Len(cs.lookups)],
                [tq.vc.meta EXCEPT !.lookups =
                        Append(@, <<[input |-> inp.expr, table |-> tq.expr]>>)])
    /\ UNCHANGED selectors

\* ConstraintSystem::shuffle with a closure yielding one (input, shuffle) pair
CSShuffle ==
    /\ CanBuild /\ Arguments < MaxArguments
    /\ \E r \in Recipes, rt \in TableRecipes :
        LET built == RunRecipe(VirtualCells(cs), r)
            tab == RunRecipe(built.vc, rt)
            inp == query_cells(built.expr, tab.vc)
            tq == query_cells(tab.expr, inp.vc) IN
        CSCall("shuffle", [input |-> built.expr, table |-> tab.expr],
               [index |-> Len(cs.shuffles)],
               [tq.vc.meta EXCEPT !.shuffles =
                    Append(@, <<[input |-> inp.expr, table |-> tq.expr]>>)])
    /\ UNCHANGED selectors

\* the activation vectors handed to the selector conversion, one per selector
Activations == {<<TRUE, FALSE>>, <<FALSE, FALSE>>}
\* faulty variant: the polynomial is 1 on every row
selector_polynomial_all_ones(activations) == [r \in DOMAIN activations |-> 1]
\* the polynomial of one selector: F::ONE on the rows where it is enabled, else F::ZERO
selector_polynomial(activations) ==
    [r \in DOMAIN activations |-> IF activations[r] THEN 1 ELSE 0]
\* the map of directly_convert_selectors_to_fixed: a polynomial and a fresh fixed
\* column, queried at the current rotation, for each activation vector in turn
RECURSIVE ConvertEach(_, _, _, _)
ConvertEach(c, acts, polys, repl) ==
    IF acts = <<>> THEN [meta |-> c, polys |-> polys, repl |-> repl]
    ELSE LET poly == selector_polynomial(Head(acts))
             column == c.num_fixed_columns
             q == query_fixed_index(fixed_column(c), column, 0)
         IN  ConvertEach(q.meta, Tail(acts), Append(polys, poly),
                         Append(repl, FixedExpr(<<q.index>>, column, 0)))

\* ConstraintSystem::directly_convert_selectors_to_fixed
CSDirectlyConvert ==
    /\ Configuring
    /\ \E n \in 0..MaxSelectors :
        \E acts \in (IF n = cs.num_selectors THEN [1..n -> Activations]
                     ELSE {[i \in 1..n |-> <<FALSE, FALSE>>]}) :
        IF n # cs.num_selectors
        THEN CSCall("directly_convert_selectors_to_fixed", [selectors |-> acts],
                    NoValue,
                    CSPanicked("assertion failed: selectors.len() == self.num_selectors"))
        ELSE LET conv == ConvertEach(cs, acts, <<>>, <<>>)
                 replaced == replace_selectors_with_fixed(conv.meta, conv.repl) IN
             CSCall("directly_convert_selectors_to_fixed", [selectors |-> acts],
                    [polys |-> conv.polys, replacements |-> conv.repl,
                     allocated |-> [i \in DOMAIN conv.repl |->
                                        Col("Fixed", conv.repl[i].column_index)]],
                    IF replaced.panic # "none" THEN CSPanicked(replaced.panic)
                    ELSE [replaced EXCEPT !.num_selectors = 0, !.converted = TRUE,
                                          !.polys = conv.polys])
    /\ UNCHANGED selectors

\* the activation vectors handed to compress_selectors, one per selector
CompressActivations == Activations \cup {<<FALSE, TRUE>>}
\* the loop of compress_selectors over the gate polynomials: for each selector the
\* largest degree of a gate polynomial holding it as a simple selector, else 0
selector_degrees(c) ==
    [i \in 1..c.num_selectors |->
        MaxOr({degree(p) : p \in {x \in StoredGatePolys(c) :
                    extract_simple_selector(x) = SelectorExpr(i - 1, TRUE)}}, 0)]
\* faulty variant: the budget handed to the compression is one above the degree
compression_budget_raised(c) == cs_degree(c) + 1
\* `let max_degree = self.degree()` of compress_selectors
compression_budget(c) == cs_degree(c)

\* compress_selectors::process, the grouping: the selectors of degree 0 stay alone;
\* the others are split into groups whose activation vectors are pairwise disjoint
\* row by row and whose combined expression stays within max_degree. A grouping
\* numbers the groups from 1 in the order of their first selector.
Groupings(acts, degrees, max_degree) ==
    LET S == {i \in DOMAIN degrees : degrees[i] > 0}
        group(g, i) == {x \in S : g[x] = g[i]} IN
    {g \in [S -> 1..Cardinality(S)] :
        /\ \A i \in S : g[i] <= 1 + MaxOr({g[j] : j \in {x \in S : x < i}}, 0)
        /\ \A i, j \in S : (i # j /\ g[i] = g[j]) =>
                \A r \in DOMAIN acts[i] : ~(acts[i][r] /\ acts[j][r])
        /\ \A i \in S : MaxOr({degrees[j] - 1 : j \in group(g, i)}, 0)
                            + Cardinality(group(g, i)) <= max_degree}
\* compress_selectors::process, the expression that stands for the selector at
\* position j of a group of k selectors sharing the query q:
\* q * Prod[root = 1..k, root # j](root - q)
RECURSIVE Replacement(_, _, _, _, _)
Replacement(q, j, k, root, expression) ==
    IF root > k THEN expression
    ELSE Replacement(q, j, k, root + 1,
            IF root # j THEN Mul(expression, Sub(Constant(root), q)) ELSE expression)
\* compress_selectors::process, the polynomial of a group: on each row the position
\* of the selector enabled there, 0 where none is
CombinationAssignment(acts, members) ==
    [r \in DOMAIN acts[CHOOSE i \in members : TRUE] |->
        MaxOr({Cardinality({x \in members : x <= i}) :
                    i \in {x \in members : acts[x][r]}}, 0)]
\* the closure compress_selectors hands to process, called n times: a fresh fixed
\* column each time, queried at the current rotation
RECURSIVE AllocateQueries(_, _, _)
AllocateQueries(c, n, queries) ==
    IF n = 0 THEN [meta |-> c, queries |-> queries]
    ELSE LET column == c.num_fixed_columns
             q == query_fixed_index(fixed_column(c), column, 0) IN
         AllocateQueries(q.meta, n - 1,
                         Append(queries, FixedExpr(<<q.index>>, column, 0)))
\* ConstraintSystem::compress_selectors once the number of vectors is accepted, for
\* the grouping g that process chose: the system, the polynomials, and for each
\* selector its replacement and its fixed column
compress_selectors(c, acts, g) ==
    LET n == c.num_selectors
        S == DOMAIN g
        zeros == (1..n) \ S
        nz == Cardinality(zeros)
        groups == {g[i] : i \in S}
        alloc == AllocateQueries(c, nz + Cardinality(groups), <<>>)
        combination_index(i) ==
            IF i \in zeros THEN Cardinality({x \in zeros : x <= i}) ELSE nz + g[i]
        members(i) == {x \in S : g[x] = g[i]}
        expression(i) ==
            IF i \in zeros THEN alloc.queries[combination_index(i)]
            ELSE Replacement(alloc.queries[combination_index(i)],
                             Cardinality({x \in members(i) : x <= i}),
                             Cardinality(members(i)), 1,
                             alloc.queries[combination_index(i)])
        polys == [k \in 1..(nz + Cardinality(groups)) |->
                    IF k <= nz
                    THEN selector_polynomial(
                            acts[CHOOSE i \in zeros : combination_index(i) = k])
                    ELSE CombinationAssignment(acts, {x \in S : g[x] = k - nz})]
        selector_replacements == [i \in 1..n |-> expression(i)]
        selector_map == [i \in 1..n |->
                            Col("Fixed", alloc.queries[combination_index(i)].column_index)]
        replaced == replace_selectors_with_fixed(
                        [alloc.meta EXCEPT !.selector_map = selector_map],
                        selector_replacements)
    IN  [meta |-> replaced, polys |-> polys, repl |-> selector_replacements,
         allocated |-> [k \in DOMAIN alloc.queries |->
                            Col("Fixed", alloc.queries[k].column_index)]]
\* ConstraintSystem::compress_selectors
CSCompressSelectors ==
    /\ Configuring
    /\ \E n \in 0..MaxSelectors :
        \E acts \in (IF n = cs.num_selectors THEN [1..n -> CompressActivations]
                     ELSE {[i \in 1..n |-> <<FALSE, FALSE>>]}) :
        IF n # cs.num_selectors
        THEN CSCall("compress_selectors", [selectors |-> acts], NoValue,
                    CSPanicked("assertion failed: selectors.len() == self.num_selectors"))
        ELSE \E g \in Groupings(acts, selector_degrees(cs), compression_budget(cs)) :
             LET done == compress_selectors(cs, acts, g) IN
             CSCall("compress_selectors", [selectors |-> acts],
                    [polys |-> done.polys, replacements |-> done.repl,
                     allocated |-> done.allocated],
                    IF done.meta.panic # "none" THEN CSPanicked(done.meta.panic)
                    ELSE [done.meta EXCEPT !.converted = TRUE, !.polys = done.polys])
    /\ UNCHANGED selectors

CSNext ==
    \/ CSAdviceColumn \/ CSUnblindedAdviceColumn \/ CSChallengeUsableAfter
    \/ CSFixedColumn \/ CSLookupTableColumn \/ CSInstanceColumn
    \/ CSSelector \/ CSComplexSelector
    \/ CSEnableEquality \/ CSEnableConstant \/ CSSetMinimumDegree
    \/ CSCreateGate \/ CSLookup \/ CSLookupAny \/ CSShuffle \/ CSDirectlyConvert
    \/ CSCompressSelectors
SpecCS == CSInit /\ [][CSNext]_vars

\* ====================================================================
\* Claims about the constraint system (checked under SpecCS)
\* ====================================================================
ArgumentExprs ==
    {cs.lookups[i][j].input : i \in DOMAIN cs.lookups, j \in {1}}
    \cup {cs.lookups[i][j].table : i \in DOMAIN cs.lookups, j \in {1}}
    \cup {cs.shuffles[i][j].input : i \in DOMAIN cs.shuffles, j \in {1}}
    \cup {cs.shuffles[i][j].table : i \in DOMAIN cs.shuffles, j \in {1}}

\* C9: no stored lookup or shuffle expression holds a simple selector, and the
\* non-simple assertion of replace_selectors_with_fixed never fires.
C9_NoSimpleSelectorInArguments ==
    /\ \A e \in ArgumentExprs : SimpleLeaves(e) = 0
    /\ cs.panic # "assertion failed: !selector.is_simple()"
\* the second half of C9 alone: the conversion of the selectors does not panic
C9_AssertionNeverFires == cs.panic # "assertion failed: !selector.is_simple()"

\* the phases of the advice columns of a constraint system
PhaseSet(c) == {c.advice_column_phase[i] : i \in DOMAIN c.advice_column_phase}
AdviceCalls == {"advice_column_in", "unblinded_advice_column_in"}

\* C11: advice_column_in(p) and unblinded_advice_column_in(p) panic exactly when
\* p >= 1 and no advice column of phase p - 1 exists, and otherwise return the next
\* column in phase p; so the phases of the advice columns are a range from 0 with no gap.
C11_GapFree == \A p \in PhaseSet(cs) : \A q \in 0..p : q \in PhaseSet(cs)
C11_Step ==
    last'.op \in AdviceCalls =>
        /\ last'.panic <=> (last'.a.phase >= 1 /\ (last'.a.phase - 1) \notin PhaseSet(cs))
        /\ ~last'.panic =>
            /\ last'.out = [index |-> cs.num_advice_columns, phase |-> last'.a.phase]
            /\ cs'.advice_column_phase = Append(cs.advice_column_phase, last'.a.phase)
        /\ last'.panic => cs'.advice_column_phase = cs.advice_column_phase
C11_PhasesCannotBeSkipped == []C11_GapFree /\ [][C11_Step]_vars
C11_Witness ==
    /\ last.op = "unblinded_advice_column_in" /\ ~last.panic
    /\ cs.advice_column_phase = <<0, 1, 2>>

\* C12: challenge_usable_after(p) panics exactly when no advice column of phase p
\* exists and then records nothing; otherwise it returns the challenge
\* (num_challenges, p) and appends p to challenge_phase. Every recorded challenge
\* phase has an advice column.
C12_Recorded ==
    \A i \in DOMAIN cs.challenge_phase : cs.challenge_phase[i] \in PhaseSet(cs)
C12_Step ==
    last'.op = "challenge_usable_after" =>
        /\ last'.panic <=> last'.a.phase \notin PhaseSet(cs)
        /\ last'.panic =>
            /\ cs'.num_challenges = cs.num_challenges
            /\ cs'.challenge_phase = cs.challenge_phase
        /\ ~last'.panic =>
            /\ last'.out = [index |-> cs.num_challenges, phase |-> last'.a.phase]
            /\ cs'.num_challenges = cs.num_challenges + 1
            /\ cs'.challenge_phase = Append(cs.challenge_phase, last'.a.phase)
C12_ChallengeUsableAfter == []C12_Recorded /\ [][C12_Step]_vars
C12_Witness ==
    /\ last.op = "challenge_usable_after" /\ ~last.panic
    /\ cs.challenge_phase = <<0, 1>> /\ last.out = [index |-> 1, phase |-> 1]

\* C13: advice_column_phase and num_advice_queries have one entry per advice column
\* and challenge_phase one entry per challenge, after every sequence of builder calls.
C13_LengthsAgree ==
    /\ Len(cs.advice_column_phase) = cs.num_advice_columns
    /\ Len(cs.challenge_phase) = cs.num_challenges
    /\ Len(cs.num_advice_queries) = cs.num_advice_columns
C13_Witness ==
    /\ cs.num_advice_columns = 2 /\ cs.num_challenges = 1 /\ Len(cs.gates) = 1
    /\ cs.panic = "none"

\* the query leaves of an expression
RECURSIVE QueryLeaves(_)
QueryLeaves(e) ==
    CASE e.t \in {"Fixed", "Advice", "Instance"} -> {e}
      [] e.t \in {"Negated", "Scaled"} -> QueryLeaves(e.a)
      [] e.t \in {"Sum", "Product"} -> QueryLeaves(e.a) \cup QueryLeaves(e.b)
      [] OTHER -> {}
\* the expressions a constraint system stores
StoredExprs(c) ==
    UNION {{c.gates[g].polys[k] : k \in DOMAIN c.gates[g].polys} : g \in DOMAIN c.gates}
    \cup
    {c.lookups[i][1].input : i \in DOMAIN c.lookups} \cup
    {c.lookups[i][1].table : i \in DOMAIN c.lookups} \cup
    {c.shuffles[i][1].input : i \in DOMAIN c.shuffles} \cup
    {c.shuffles[i][1].table : i \in DOMAIN c.shuffles}
NoPairTwice(queries) ==
    \A i, j \in DOMAIN queries : queries[i] = queries[j] => i = j
QueriesOf(c, t) ==
    CASE t = "Advice" -> c.advice_queries
      [] t = "Fixed" -> c.fixed_queries
      [] t = "Instance" -> c.instance_queries
IsPrefix(a, b) == Len(a) <= Len(b) /\ \A i \in DOMAIN a : a[i] = b[i]

\* C14: no query list holds a (column, rotation) pair twice, every interned query
\* leaf carries the position of its pair, positions never change afterwards, and
\* num_advice_queries[c] counts the pairs of advice column c.
C14_Interned ==
    /\ NoPairTwice(cs.advice_queries) /\ NoPairTwice(cs.fixed_queries)
    /\ NoPairTwice(cs.instance_queries)
    /\ \A c \in DOMAIN cs.num_advice_queries :
        cs.num_advice_queries[c] =
            Cardinality({i \in DOMAIN cs.advice_queries : cs.advice_queries[i][1] = c - 1})
    /\ \A e \in StoredExprs(cs) : \A q \in QueryLeaves(e) :
        /\ Len(q.index) = 1
        /\ q.index[1] + 1 \in DOMAIN QueriesOf(cs, q.t)
        /\ QueriesOf(cs, q.t)[q.index[1] + 1] = <<q.column_index, q.rotation>>
C14_Step ==
    /\ IsPrefix(cs.advice_queries, cs'.advice_queries)
    /\ IsPrefix(cs.fixed_queries, cs'.fixed_queries)
    /\ IsPrefix(cs.instance_queries, cs'.instance_queries)
C14_QueryInterning == []C14_Interned /\ [][C14_Step]_vars
C14_Witness ==
    /\ cs.panic = "none" /\ Len(cs.gates) = 1 /\ Len(cs.lookups) = 1
    /\ Len(cs.gates[1].polys) = 2 /\ cs.gates[1].polys[1] = cs.gates[1].polys[2]
    /\ cs.num_advice_queries = <<4>> /\ Len(cs.advice_queries) = 4
    /\ cs.lookups[1][1].input \in QueryLeaves(cs.gates[1].polys[1])

\* C15: create_gate panics exactly when its closure yields no constraint and then
\* stores no gate; otherwise it appends one gate; every stored gate has at least one
\* polynomial and one constraint name per polynomial.
C15_GatesWellFormed ==
    \A g \in DOMAIN cs.gates :
        /\ Len(cs.gates[g].polys) >= 1
        /\ Len(cs.gates[g].constraint_names) = Len(cs.gates[g].polys)
C15_Step ==
    last'.op = "create_gate" =>
        /\ last'.panic <=> last'.a.names = <<>>
        /\ last'.panic => cs'.gates = cs.gates
        /\ ~last'.panic =>
            /\ Len(cs'.gates) = Len(cs.gates) + 1
            /\ SubSeq(cs'.gates, 1, Len(cs.gates)) = cs.gates
            /\ cs'.gates[Len(cs'.gates)].constraint_names = last'.a.names
C15_CreateGate == []C15_GatesWellFormed /\ [][C15_Step]_vars
C15_Witness ==
    /\ last.op = "create_gate" /\ ~last.panic /\ Len(cs.gates) = 2
    /\ cs.gates[2].constraint_names = <<"c0", "c1">> /\ Len(cs.gates[2].polys) = 2

\* the largest member of a non-empty set of numbers
Largest(S) == CHOOSE m \in S : \A x \in S : x <= m
\* the numbers the degree of the constraint system is the maximum of
DegreeParts(c) ==
    {permutation_required_degree(c.permutation)}
    \cup {lookup_required_degree(c.lookups[i]) : i \in DOMAIN c.lookups}
    \cup {shuffle_required_degree(c.shuffles[i]) : i \in DOMAIN c.shuffles}
    \cup GateDegrees(c)
    \cup {IF c.minimum_degree = <<>> THEN 1 ELSE c.minimum_degree[1]}

\* C18: the degree of the constraint system is the largest of the permutation
\* argument's required degree, the required degrees of the lookups and of the
\* shuffles, the degrees of the gate polynomials and minimum_degree (1 when unset);
\* it is at least 1 and at least the degree of every stored gate polynomial.
C18_Degree ==
    /\ cs_degree(cs) = Largest(DegreeParts(cs))
    /\ cs_degree(cs) >= 1
    /\ \A g \in DOMAIN cs.gates : \A k \in DOMAIN cs.gates[g].polys :
            cs_degree(cs) >= degree(cs.gates[g].polys[k])
C18_Witness ==
    /\ cs.gates # <<>> /\ cs.lookups = <<>> /\ cs.shuffles = <<>>
    /\ cs.minimum_degree = <<0>>
    /\ 4 \in GateDegrees(cs) /\ cs_degree(cs) = 4

\* C19: blinding_factors is the larger of 3 and the largest num_advice_queries
\* entry, plus 2, and minimum_rows is blinding_factors plus 3; they are 5 and 8
\* when no advice column has more than 3 distinct queries.
C19_BlindingFactors ==
    LET entries == {cs.num_advice_queries[i] : i \in DOMAIN cs.num_advice_queries} IN
    /\ blinding_factors(cs) = Largest(entries \cup {3}) + 2
    /\ minimum_rows(cs) = blinding_factors(cs) + 3
    /\ (\A n \in entries : n <= 3) => blinding_factors(cs) = 5 /\ minimum_rows(cs) = 8
C19_Witness ==
    /\ \E i \in DOMAIN cs.num_advice_queries : cs.num_advice_queries[i] = 4
    /\ blinding_factors(cs) = 6 /\ minimum_rows(cs) = 9

\* C20 (state part): constants holds no column twice, and every column in it is in
\* the permutation argument and has a query at rotation 0 in fixed_queries.
C20_ConstantsEnabled ==
    /\ \A i, j \in DOMAIN cs.constants : cs.constants[i] = cs.constants[j] => i = j
    /\ \A i \in DOMAIN cs.constants :
        /\ cs.constants[i].ct = "Fixed"
        /\ SeqContains(cs.permutation, cs.constants[i])
        /\ SeqContains(cs.fixed_queries, <<cs.constants[i].index, 0>>)
\* C20 (step part): enable_constant on a column already in constants changes
\* nothing, on another column appends it, and no call reorders or removes constants.
C20_Step ==
    /\ IsPrefix(cs.constants, cs'.constants)
    /\ (last'.op = "enable_constant" /\ cs' # cs) =>
            /\ ~SeqContains(cs.constants, last'.a)
            /\ cs'.constants = Append(cs.constants, last'.a)
    /\ (last'.op = "enable_constant" /\ last' # last
            /\ SeqContains(cs.constants, last'.a)) => cs' = cs
\* C20: enable_constant is idempotent and implies equality.
C20_EnableConstant == []C20_ConstantsEnabled /\ [][C20_Step]_vars
C20_Witness ==
    /\ last.op = "enable_constant" /\ ~last.panic
    /\ Len(cs.constants) = 2 /\ last.a = cs.constants[1]
    /\ cs.constants[1].index > cs.constants[2].index

\* the calls that allocate one column or selector, and the variables they count in
ColumnCalls == {"fixed_column", "lookup_table_column", "instance_column",
                "advice_column_in", "unblinded_advice_column_in"}
CountOf(c, op) ==
    CASE op \in {"fixed_column", "lookup_table_column"} -> c.num_fixed_columns
      [] op = "instance_column" -> c.num_instance_columns
      [] op \in {"advice_column_in", "unblinded_advice_column_in"} -> c.num_advice_columns
      [] op = "selector" -> c.num_selectors
SelectorConversions == {"directly_convert_selectors_to_fixed", "compress_selectors"}
\* C21 (step part): an allocation returns the index equal to the count of its kind
\* before the call and raises that count by one; a selector conversion allocates
\* fixed columns in the same way; and no call lowers a column count, so an index
\* handed out once is never handed out again.
C21_Step ==
    /\ cs'.num_fixed_columns >= cs.num_fixed_columns
    /\ cs'.num_advice_columns >= cs.num_advice_columns
    /\ cs'.num_instance_columns >= cs.num_instance_columns
    /\ last'.op \notin SelectorConversions => cs'.num_selectors >= cs.num_selectors
    /\ (last'.op \in ColumnCalls \cup {"selector"} /\ ~last'.panic /\ cs' # cs) =>
            /\ last'.out.index = CountOf(cs, last'.op)
            /\ CountOf(cs', last'.op) = CountOf(cs, last'.op) + 1
    /\ (last'.op \in {"fixed_column", "lookup_table_column"} /\ cs' # cs) =>
            last'.out.ct = "Fixed"
    /\ (last'.op = "instance_column" /\ cs' # cs) => last'.out.ct = "Instance"
    /\ (last'.op \in SelectorConversions /\ ~last'.panic /\ cs' # cs) =>
            /\ cs'.num_fixed_columns =
                    cs.num_fixed_columns + Len(last'.out.allocated)
            /\ \A i \in DOMAIN last'.out.allocated :
                    last'.out.allocated[i] = Col("Fixed", cs.num_fixed_columns + i - 1)
\* C21 (state part): the selectors handed out carry the indices 0, 1, ... in order,
\* simple and complex alike.
C21_SelectorsNumbered ==
    /\ \A i \in DOMAIN selectors : selectors[i].index = i - 1
    /\ ~cs.converted => Len(selectors) = cs.num_selectors
\* C21: every column allocation returns a fresh column of its type.
C21_FreshColumns == []C21_SelectorsNumbered /\ [][C21_Step]_vars
C21_Witness ==
    /\ last.op = "lookup_table_column" /\ last.out = Col("Fixed", 1)
    /\ cs.num_fixed_columns = 2 /\ cs.tables = {1}

\* an expression with every Selector leaf replaced by the expression of its index
RECURSIVE Substituted(_, _)
Substituted(e, repl) ==
    CASE e.t = "Selector" -> repl[e.index + 1]
      [] e.t \in {"Negated", "Scaled"} -> [e EXCEPT !.a = Substituted(e.a, repl)]
      [] e.t \in {"Sum", "Product"} ->
            [e EXCEPT !.a = Substituted(e.a, repl), !.b = Substituted(e.b, repl)]
      [] OTHER -> e
\* the stored expressions of `after` are those of `before` with the selectors replaced
StoredSubstituted(before, after, repl) ==
    /\ Len(after.gates) = Len(before.gates)
    /\ \A g \in DOMAIN before.gates :
        /\ DOMAIN after.gates[g].polys = DOMAIN before.gates[g].polys
        /\ \A k \in DOMAIN before.gates[g].polys :
            after.gates[g].polys[k] = Substituted(before.gates[g].polys[k], repl)
    /\ Len(after.lookups) = Len(before.lookups)
    /\ \A i \in DOMAIN before.lookups :
        /\ after.lookups[i][1].input = Substituted(before.lookups[i][1].input, repl)
        /\ after.lookups[i][1].table = Substituted(before.lookups[i][1].table, repl)
    /\ Len(after.shuffles) = Len(before.shuffles)
    /\ \A i \in DOMAIN before.shuffles :
        /\ after.shuffles[i][1].input = Substituted(before.shuffles[i][1].input, repl)
        /\ after.shuffles[i][1].table = Substituted(before.shuffles[i][1].table, repl)
\* the query of fixed column col at rotation 0 as the system c has interned it
CurQuery(c, col) ==
    FixedExpr(<<(CHOOSE k \in DOMAIN c.fixed_queries : c.fixed_queries[k] = <<col, 0>>) - 1>>,
              col, 0)

\* C22: directly_convert_selectors_to_fixed panics when the number of activation
\* vectors is not num_selectors; when it returns it has allocated one fixed column
\* per selector in selector order, returns for selector i the polynomial that is 1
\* on the rows where activations[i] is true and 0 elsewhere, has replaced selector i
\* everywhere by the rotation-0 query of its own column, and num_selectors is 0.
C22_Step ==
    (last'.op = "directly_convert_selectors_to_fixed" /\ cs' # cs) =>
        LET acts == last'.a.selectors
            n == cs.num_selectors
            column(i) == cs.num_fixed_columns + i - 1 IN
        /\ Len(acts) # n => last'.panic /\ cs'.panic # "none" /\ ~cs'.converted
        /\ (Len(acts) = n /\ ~last'.panic) =>
            /\ cs'.num_fixed_columns = cs.num_fixed_columns + n
            /\ cs'.num_selectors = 0
            /\ Len(last'.out.polys) = n
            /\ \A i \in 1..n :
                /\ DOMAIN last'.out.polys[i] = DOMAIN acts[i]
                /\ \A r \in DOMAIN acts[i] :
                    last'.out.polys[i][r] = IF acts[i][r] THEN 1 ELSE 0
                /\ SeqContains(cs'.fixed_queries, <<column(i), 0>>)
            /\ StoredSubstituted(cs, cs', [i \in 1..n |-> CurQuery(cs', column(i))])
C22_DirectlyConvert == [][C22_Step]_vars
C22_Witness ==
    /\ last.op = "directly_convert_selectors_to_fixed" /\ ~last.panic
    /\ last.out.polys = <<<<0, 0>>, <<1, 0>>>>
    /\ cs.num_fixed_columns = 3 /\ cs.num_selectors = 0
    /\ \E g \in DOMAIN cs.gates : cs.gates[g].polys[1] = FixedExpr(<<1>>, 2, 0)

\* whether an expression holds a Selector leaf, simple or complex
RECURSIVE HasSelector(_)
HasSelector(e) ==
    CASE e.t = "Selector" -> TRUE
      [] e.t \in {"Negated", "Scaled"} -> HasSelector(e.a)
      [] e.t \in {"Sum", "Product"} -> HasSelector(e.a) \/ HasSelector(e.b)
      [] OTHER -> FALSE

\* C23 (state part): once a selector conversion has returned, no stored gate
\* polynomial, lookup expression or shuffle expression holds a Selector leaf.
C23_NoSelectorLeft ==
    cs.converted => \A e \in StoredExprs(cs) : ~HasSelector(e)
\* C23 (step part): a selector conversion that returns has replaced each occurrence
\* of selector i by the replacement expression of selector i and has left every
\* other node of every stored expression as it was.
C23_Step ==
    (last'.op \in SelectorConversions /\ ~last'.panic /\ cs' # cs) =>
        /\ cs'.converted
        /\ Len(last'.out.replacements) = cs.num_selectors
        /\ \A i \in DOMAIN last'.out.replacements :
                ~HasSelector(last'.out.replacements[i])
        /\ StoredSubstituted(cs, cs', last'.out.replacements)
\* C23: after compress_selectors or directly_convert_selectors_to_fixed no stored
\* expression holds a selector.
C23_SelectorsReplaced == []C23_NoSelectorLeft /\ [][C23_Step]_vars
C23_Witness ==
    /\ last.op = "compress_selectors" /\ ~last.panic /\ cs.converted
    /\ Len(last.out.replacements) = 2 /\ degree(last.out.replacements[2]) = 2
    /\ \E e \in StoredExprs(cs) :
            e = Product(last.out.replacements[2], AdviceExpr(<<0>>, 0, 0))

\* C24: compress_selectors leaves the degree of the constraint system as it was,
\* gives two selectors the same fixed column only when their activation vectors are
\* never both true on a row, and fills selector_map with one fixed column per
\* selector, each allocated during the call.
C24_Step ==
    (last'.op = "compress_selectors" /\ ~last'.panic /\ cs' # cs) =>
        LET acts == last'.a.selectors IN
        /\ cs_degree(cs') = cs_degree(cs)
        /\ Len(cs'.selector_map) = cs.num_selectors
        /\ \A i \in DOMAIN cs'.selector_map :
            /\ cs'.selector_map[i].ct = "Fixed"
            /\ cs'.selector_map[i].index >= cs.num_fixed_columns
            /\ cs'.selector_map[i].index < cs'.num_fixed_columns
        /\ \A i, j \in DOMAIN cs'.selector_map :
            (i # j /\ cs'.selector_map[i] = cs'.selector_map[j]) =>
                \A r \in DOMAIN acts[i] : ~(acts[i][r] /\ acts[j][r])
C24_CompressKeepsDegree == [][C24_Step]_vars
C24_Witness ==
    /\ last.op = "compress_selectors" /\ ~last.panic
    /\ last.a.selectors = <<<<TRUE, FALSE>>, <<FALSE, TRUE>>>>
    /\ cs.selector_map = <<Col("Fixed", 0), Col("Fixed", 0)>>
    /\ last.out.polys = <<<<1, 2>>>>
    /\ Len(cs.gates) = 1 /\ cs_degree(cs) = 3
    /\ \A k \in DOMAIN cs.gates[1].polys : degree(cs.gates[1].polys[k]) = 3

\* ====================================================================
\* Claims about assign_table and the placement (checked under Spec)
\* ====================================================================
\* the step in which assign_table goes on after its closure returned Ok
TableClosureReturned ==
    /\ InTable /\ Len(log') > Len(log)
    /\ log'[Len(log) + 1].call = "exit_region" /\ log'[Len(log) + 1].by = "assign_table"
\* the first row of a table column that the closure did not write
FirstUnused(t) == Len(table[t].assigned)
\* the columns of the table agree on their first unused row and have no unwritten
\* row below it
TableUniform ==
    /\ \A t, u \in DOMAIN table : FirstUnused(t) = FirstUnused(u)
    /\ \A t \in DOMAIN table : \A r \in 1..FirstUnused(t) : table[t].assigned[r]
\* the calls the backend received in the step, after the exit_region
FillsSent == SubSeq(log', Len(log) + 2, Len(log'))

\* C25: when the columns a table closure wrote have different first unused rows, or
\* one of them has an unwritten row below it, assign_table returns a table-shape
\* error, records none of the columns and issues no fill_from_row.
C25_Step ==
    (TableClosureReturned /\ ~TableUniform) =>
        /\ pc' = "done" /\ result' = "TableError"
        /\ table_columns' = table_columns
        /\ FillsSent = <<>>
C25_TableUniformity == [][C25_Step]_vars
C25_Witness ==
    /\ pc = "done" /\ result = "TableError" /\ ctx = "table"
    /\ log[Len(log)].call = "exit_region"
    /\ DOMAIN table = {T0, T1} /\ table_columns = <<>>
    /\ table[T0].assigned = <<TRUE>> /\ table[T1].assigned = <<TRUE, TRUE>>

\* C26 (step part): when the closure has returned Ok on a uniform table with first
\* unused row L, each column of the table is recorded once, and the backend gets
\* fill_from_row(column, L, default of the column), once per column, until one
\* fails.
C26_Step ==
    (TableClosureReturned /\ TableUniform) =>
        LET sent == FillsSent
            added == SubSeq(table_columns', Len(table_columns) + 1, Len(table_columns')) IN
        /\ Len(table_columns') = Len(table_columns) + Cardinality(DOMAIN table)
        /\ SubSeq(table_columns', 1, Len(table_columns)) = table_columns
        /\ {added[i] : i \in DOMAIN added} = DOMAIN table
        /\ \A i \in DOMAIN sent :
            /\ sent[i].call = "fill_from_row" /\ sent[i].col \in DOMAIN table
            /\ sent[i].row = FirstUnused(sent[i].col)
            /\ sent[i].val = table[sent[i].col].default
            /\ \A j \in DOMAIN sent : sent[j].col = sent[i].col => i = j
        /\ (\A i \in DOMAIN sent : sent[i].ok) =>
            /\ {sent[i].col : i \in DOMAIN sent} = DOMAIN table
            /\ pc' = pc /\ ctx' = "top"
\* C26 (state part): no table column is recorded twice.
C26_ColumnsUsedOnce ==
    \A i, j \in DOMAIN table_columns : table_columns[i] = table_columns[j] => i = j
\* C26: a uniform table is recorded and filled from its first unused row, and no
\* column belongs to two tables.
C26_TableFilled == []C26_ColumnsUsedOnce /\ [][C26_Step]_vars
C26_Witness ==
    /\ ctx = "top" /\ pc = "assign" /\ Len(table_columns) = 2 /\ Len(log) >= 2
    /\ \A i \in {Len(log) - 1, Len(log)} :
        /\ log[i].call = "fill_from_row" /\ log[i].ok /\ log[i].row = 1
        /\ log[i].val = TableVal(log[i].col, 0)
\* the regions have been placed
Planned == pc = "assign" \/ (pc = "done" /\ ip >= 1)
\* region j is placed before region i
PlacedBefore(j, i) ==
    \/ AdviceArea(measure_regions[j]) > AdviceArea(measure_regions[i])
    \/ AdviceArea(measure_regions[j]) = AdviceArea(measure_regions[i]) /\ j < i
\* rows [r, r + row_count) of region i meet, in a column both touch, the rows of a
\* region placed before it
Collides(i, r) ==
    \E j \in DOMAIN measure_regions :
        /\ PlacedBefore(j, i)
        /\ measure_regions[j].columns \cap measure_regions[i].columns # {}
        /\ r < regions[j] + measure_regions[j].row_count
        /\ regions[j] < r + measure_regions[i].row_count

\* C27: the start row of every region is the smallest row at which its rows are free,
\* in every column it touches, of the regions placed before it, where the regions
\* are placed in descending advice area and equal areas in measurement order; the
\* starts are therefore determined by the ordered shapes.
C27_BiggestAdviceFirst ==
    Planned =>
        /\ DOMAIN regions = DOMAIN measure_regions
        /\ \A i \in DOMAIN regions :
            /\ regions[i] >= 0
            /\ ~Collides(i, regions[i])
            /\ \A q \in 0..(regions[i] - 1) : Collides(i, q)
C27_Witness ==
    /\ Planned /\ Len(measure_regions) = 2
    /\ AdviceArea(measure_regions[1]) < AdviceArea(measure_regions[2])
    /\ measure_regions[1].columns \cap measure_regions[2].columns # {}
    /\ regions = <<2, 0>>
\* a write of a region that reached the backend in pass 2
IsRegionWrite(ev) ==
    ev.by = "region" /\ ev.call \in {"enable_selector", "assign_advice", "assign_fixed"}
\* no closure of the measurement pass returned an error
NoFailedClosure == \A i \in DOMAIN script : script[i].e = "ret" => script[i].ok

\* C28: pass parity: every write the backend receives from the n-th region of pass 2
\* is on a column of the n-th measured shape, at an offset below the row_count of
\* that shape, hence in rows [regions[n], regions[n] + row_count) of a column
\* reserved for the region.
C28_PassParity ==
    \A i \in DOMAIN log :
        IsRegionWrite(log[i]) =>
            LET n == log[i].n IN
            /\ n + 1 \in DOMAIN measure_regions /\ n + 1 \in DOMAIN regions
            /\ log[i].col \in measure_regions[n + 1].columns
            /\ script[log[i].at].off < measure_regions[n + 1].row_count
            /\ regions[n + 1] <= log[i].row
            /\ log[i].row < regions[n + 1] + measure_regions[n + 1].row_count
            /\ \E a \in column_allocations :
                /\ a.col = log[i].col
                /\ a.start <= log[i].row /\ log[i].row < a.start + a.length
\* the rows reserved for regions i and j meet in a column both touch
Overlap(i, j) ==
    /\ measure_regions[i].columns \cap measure_regions[j].columns # {}
    /\ regions[i] < regions[j] + measure_regions[j].row_count
    /\ regions[j] < regions[i] + measure_regions[i].row_count
\* two writes of pass 2, by distinct regions, that the backend accepted at one cell
SharedCell(i, j) ==
    /\ IsRegionWrite(log[i]) /\ IsRegionWrite(log[j])
    /\ log[i].ok /\ log[j].ok /\ log[i].n # log[j].n
    /\ log[i].col = log[j].col /\ log[i].row = log[j].row
\* C32: the regions that share a column are given disjoint row intervals, and no
\* two distinct regions write the same (column, absolute row) in pass 2.
C32_NoSharedCell ==
    /\ Planned => \A i, j \in DOMAIN regions : i # j => ~Overlap(i, j)
    /\ \A i, j \in DOMAIN log : ~SharedCell(i, j)
\* the assign_fixed calls of the constant wiring, in the order issued
ConstantWrites == SelectSeq(log, LAMBDA e : e.by = "constant" /\ e.call = "assign_fixed")
\* the `constants` argument lists each column once
ListedOnce == \A a, b \in DOMAIN constants : constants[a] = constants[b] => a = b
\* C33: every constant is assigned in a column of the `constants` argument, at a
\* row below the end of some reserved interval (that is, below first_unassigned_row;
\* never when no region reserved a row) and inside no interval reserved in that
\* column, and no two constants are assigned at one position, when `constants`
\* lists each column once.
C33_ConstantsInFreeRows ==
    ListedOnce =>
        /\ \A i \in DOMAIN ConstantWrites :
            LET w == ConstantWrites[i] IN
            /\ \E s \in DOMAIN constants : constants[s] = w.col
            /\ w.col.ct = "Fixed" /\ w.row >= 0
            /\ \E a \in column_allocations : w.row < a.start + a.length
            /\ \A a \in column_allocations :
                a.col = w.col => (w.row < a.start \/ a.start + a.length <= w.row)
        /\ \A i, j \in DOMAIN ConstantWrites :
            (ConstantWrites[i].col = ConstantWrites[j].col
             /\ ConstantWrites[i].row = ConstantWrites[j].row) => i = j
\* a constant written, with success, in a fixed column in which a region reserved
\* other rows
C33_Witness ==
    /\ ListedOnce /\ Len(ConstantWrites) >= 1 /\ ConstantWrites[1].ok
    /\ \E a \in column_allocations : a.col = ConstantWrites[1].col /\ a.length > 0
\* the measurement run of circuit.synthesize returned an error
MeasurementFailed ==
    script # <<>> /\ script[Len(script)].e = "return" /\ ~script[Len(script)].ok
\* a backend call that returned an error (a failing enter_region is a panic)
ReturnedErr(ev) == ~ev.ok /\ ev.call # "enter_region"
\* C34: an error of the measurement run is returned and the backend has received
\* no call; a backend call that fails in pass 2 ends the run with that error before
\* any constant is written; a failing assign_fixed or copy of the constant wiring
\* ends the run at once, so that no call follows the failing one.
C34_FirstErrorReturned ==
    /\ MeasurementFailed => pc = "done" /\ result = "Synthesis" /\ log = <<>> /\ ip = 0
    /\ \A i \in DOMAIN log :
        ReturnedErr(log[i]) =>
            /\ i = Len(log) /\ pc = "done" /\ result = "Synthesis"
            /\ log[i].by # "constant" => ConstantEvents = <<>>
            /\ log[i].by = "constant" =>
                Len(ConstantWrites) = wire_i /\ wire_i <= Len(plan_constants)
\* the copy of the first of two recorded constants failed: the second is not written
C34_Witness ==
    /\ pc = "done" /\ result = "Synthesis" /\ Len(plan_constants) = 2
    /\ Len(ConstantEvents) = 2 /\ ConstantEvents[1].ok
    /\ ConstantEvents[2].call = "copy" /\ ~ConstantEvents[2].ok
\* pass 2 is at the call `e` of a region closure
AtRegionCall(e) ==
    pc = "assign" /\ ctx = "region" /\ ip \in DOMAIN script /\ script[ip].e = e
\* C36: in pass 2 assign_advice_from_constant sends one assign_advice of the constant
\* at row regions[region_index] + offset and, when the backend accepts it, appends
\* (constant, cell) to the constants of the plan; when the backend refuses it nothing
\* is appended; constrain_constant appends its pair and sends nothing.
C36_Step ==
    /\ AtRegionCall("assign_advice_from_constant") /\ log' # log =>
        LET ev == script[ip]
            sent == log'[Len(log')]
        IN /\ Len(log') = Len(log) + 1 /\ SubSeq(log', 1, Len(log)) = log
           /\ sent.call = "assign_advice" /\ sent.val = ev.k /\ sent.col = ev.col
           /\ sent.row = regions[cur_region + 1] + ev.off
           /\ plan_constants' =
                IF sent.ok
                THEN Append(plan_constants,
                            [constant |-> ev.k,
                             cell |-> [region_index |-> cur_region, row_offset |-> ev.off,
                                       column |-> ev.col]])
                ELSE plan_constants
           /\ sent.ok <=> ip' = ip + 1
    /\ AtRegionCall("assign_advice_from_constant") /\ log' = log =>
        plan_constants' = plan_constants
    /\ AtRegionCall("constrain_constant") =>
        /\ log' = log
        /\ ip' = ip + 1 =>
            /\ Len(plan_constants') = Len(plan_constants) + 1
            /\ SubSeq(plan_constants', 1, Len(plan_constants)) = plan_constants
            /\ plan_constants'[Len(plan_constants')].constant = script[ip].k
    /\ plan_constants' # plan_constants =>
        AtRegionCall("assign_advice_from_constant") \/ AtRegionCall("constrain_constant")
C36_ConstantDeferred == [][C36_Step]_vars
\* a constant assigned at offset 1 of the second region has been recorded, and the
\* wiring has not begun
C36_Witness ==
    /\ pc = "assign" /\ Len(plan_constants) = 1 /\ log # <<>> /\ cur_region = 1
    /\ LET sent == log[Len(log)] IN
       /\ sent.call = "assign_advice" /\ sent.ok /\ sent.val = plan_constants[1].constant
       /\ plan_constants[1].cell.row_offset = 1
       /\ sent.row = regions[2] + 1
    /\ ConstantEvents = <<>>
\* the calls a step adds to the backend log
NewCalls == SubSeq(log', Len(log) + 1, Len(log'))
\* the call is copy(column, row, column2, row2)
IsCopy(ev, column, row, column2, row2) ==
    /\ ev.call = "copy"
    /\ ev.col = column /\ ev.row = row /\ ev.col2 = column2 /\ ev.row2 = row2
\* regions[cell.region_index] + cell.row_offset
Absolute(cell) == regions[cell.region_index + 1] + cell.row_offset
\* C37: the equality operations reach the backend with absolute addresses:
\* constrain_equal as one copy between the absolute addresses of its two cells, left
\* first; constrain_instance as one copy from the absolute address of the cell to
\* the instance cell, whose row is passed on as given; assign_advice_from_instance
\* as query_instance, assign_advice at the absolute row and that copy, in this
\* order, each sent only when the one before succeeded.
C37_Step ==
    /\ AtRegionCall("constrain_equal") /\ log' # log =>
        LET left == returned[script[ip].j].cell
            right == returned[script[ip].j2].cell
        IN /\ Len(NewCalls) = 1 /\ SubSeq(log', 1, Len(log)) = log
           /\ IsCopy(NewCalls[1], left.column, Absolute(left),
                     right.column, Absolute(right))
           /\ NewCalls[1].ok <=> ip' = ip + 1
    /\ pc = "assign" /\ ctx = "top" /\ ip \in DOMAIN script
       /\ script[ip].e = "constrain_instance" /\ log' # log =>
        LET cell == returned[script[ip].j].cell
        IN /\ Len(NewCalls) = 1 /\ SubSeq(log', 1, Len(log)) = log
           /\ IsCopy(NewCalls[1], cell.column, Absolute(cell), I0, script[ip].row)
           /\ NewCalls[1].ok <=> ip' = ip + 1
    /\ AtRegionCall("assign_advice_from_instance") /\ log' # log =>
        LET ev == script[ip]
            row == regions[cur_region + 1] + ev.off
        IN /\ Len(NewCalls) \in 1..3 /\ SubSeq(log', 1, Len(log)) = log
           /\ NewCalls[1].call = "query_instance"
           /\ NewCalls[1].col = I0 /\ NewCalls[1].row = ev.row
           /\ Len(NewCalls) >= 2 =>
                /\ NewCalls[1].ok
                /\ NewCalls[2].call = "assign_advice"
                /\ NewCalls[2].col = ev.col /\ NewCalls[2].row = row
           /\ Len(NewCalls) = 3 =>
                /\ NewCalls[2].ok
                /\ IsCopy(NewCalls[3], ev.col, row, I0, ev.row)
           /\ ip' = ip + 1 <=> (Len(NewCalls) = 3 /\ NewCalls[3].ok)
C37_EqualityForwarded == [][C37_Step]_vars
\* constrain_equal and constrain_instance have reached the backend, after an
\* assign_advice_from_instance that sent its three calls
C37_Witness ==
    \E i, j, k \in DOMAIN log :
        /\ log[i].by = "region" /\ log[i].call = "copy" /\ log[i].ok
        /\ log[i].col2 = I0 /\ log[i - 1].val = "instance"
        /\ log[j].by = "region" /\ log[j].call = "copy" /\ log[j].ok
        /\ log[j].col2 # I0
        /\ log[k].by = "constrain_instance" /\ log[k].ok /\ log[k].row2 = 1
\* ====================================================================
\* TableColumn (checked under SpecCS)
\* ====================================================================
\* C29: the fixed column of a TableColumn never reaches a caller: no column that
\* lookup_table_column allocated is passed to enable_constant (or to any other
\* operation that takes a Column<Fixed>).
C29_TableColumnEncapsulated ==
    /\ \A i \in DOMAIN cs.constants : cs.constants[i].index \notin cs.tables
    /\ (last.op \in {"enable_constant", "enable_equality"} /\ last.a.ct = "Fixed") =>
            last.a.index \notin cs.tables

\* ====================================================================
\* The order of columns: impl Ord for Column<C>
\* ====================================================================
\* the column types: Instance, Advice { phase }, Fixed
OrdPhases == {0, 1}
ColumnTypes ==
    {[kind |-> "Instance", phase |-> 0], [kind |-> "Fixed", phase |-> 0]}
    \cup {[kind |-> "Advice", phase |-> p] : p \in OrdPhases}
\* Column::new(index, column_type)
OrdColumns == [index : 0..(MaxColumns - 1), column_type : ColumnTypes]
\* usize::cmp and u8::cmp
Ordering(x, y) == IF x < y THEN "Less" ELSE IF x = y THEN "Equal" ELSE "Greater"
\* Ord for Any: Instance < Advice < Fixed, two advice types by their phase
AnyRank(t) == CASE t.kind = "Instance" -> 0 [] t.kind = "Advice" -> 1 [] OTHER -> 2
any_cmp(s, t) ==
    IF AnyRank(s) # AnyRank(t) THEN Ordering(AnyRank(s), AnyRank(t))
    ELSE Ordering(s.phase, t.phase)
\* faulty variant: the index is compared before the column type
column_cmp_index_first(a, b) ==
    IF a.index # b.index THEN Ordering(a.index, b.index)
    ELSE any_cmp(a.column_type, b.column_type)
\* Ord::cmp for Column<C>
column_cmp(a, b) ==
    LET order == any_cmp(a.column_type, b.column_type) IN
    IF order = "Equal" THEN Ordering(a.index, b.index) ELSE order
\* PartialOrd::partial_cmp for Column<C>: Some(self.cmp(other))
column_partial_cmp(a, b) == <<column_cmp(a, b)>>

OrdInit ==
    /\ last = NoLast /\ exprs = <<>> /\ cs = NoCS /\ selectors = <<>>
    /\ pc = "order" /\ ctx = "top" /\ result = "none" /\ script = <<>> /\ ip = 0
    /\ constants = <<>> /\ measure_regions = <<>> /\ shape = NoShape
    /\ regions = <<>> /\ column_allocations = {} /\ region_index = 0 /\ cur_region = 0
    /\ plan_constants = <<>> /\ table_columns = <<>> /\ table = NoTable
    /\ returned = <<>> /\ wire_i = 0 /\ log = <<>>
Compared(op, a, b, out) ==
    /\ last' = [op |-> op, a |-> a, b |-> b, out |-> [t |-> out], panic |-> FALSE]
    /\ UNCHANGED <<pvars, exprs, cvars>>
OrdCmp == \E a, b \in OrdColumns : Compared("cmp", a, b, column_cmp(a, b))
OrdPartialCmp ==
    \E a, b \in OrdColumns : Compared("partial_cmp", a, b, column_partial_cmp(a, b)[1])
OrdNext == OrdCmp \/ OrdPartialCmp
SpecOrd == OrdInit /\ [][OrdNext]_vars

Opposite(o) == CASE o = "Less" -> "Greater" [] o = "Greater" -> "Less" [] OTHER -> "Equal"
KindOrder == <<"Instance", "Advice", "Fixed">>
KindBefore(a, b) ==
    \E i, j \in DOMAIN KindOrder :
        i < j /\ KindOrder[i] = a.column_type.kind /\ KindOrder[j] = b.column_type.kind

V2Panic(msg) == [t |-> "panic", msg |-> msg]
\* From<Expression> for ExpressionMid: a query loses its index, a Selector is
\* unreachable!()
RECURSIVE into_mid(_)
into_mid(e) ==
    CASE e.t = "Selector" -> Panicked
      [] e.t \in {"Fixed", "Advice", "Instance"} ->
            [t |-> e.t, column_index |-> e.column_index, rotation |-> e.rotation]
      [] e.t \in {"Negated", "Scaled"} ->
            LET a == into_mid(e.a) IN
            IF a = Panicked THEN Panicked ELSE [e EXCEPT !.a = a]
      [] e.t \in {"Sum", "Product"} ->
            LET a == into_mid(e.a)
                b == into_mid(e.b) IN
            IF a = Panicked \/ b = Panicked THEN Panicked
            ELSE [e EXCEPT !.a = a, !.b = b]
      [] OTHER -> e

\* faulty variant: the constraint name is always appended
merged_name_always(gate_name, constraint_name) == gate_name \o ":" \o constraint_name
\* the name of a backend gate
merged_name(gate_name, constraint_name) ==
    IF constraint_name = "" THEN gate_name ELSE gate_name \o ":" \o constraint_name
\* the backend gates of one gate, one per polynomial; constraint_names[i] is an
\* indexing that panics out of range
gate_into_v2(g) ==
    [i \in DOMAIN g.polys |->
        IF i \notin DOMAIN g.constraint_names THEN V2Panic("index out of bounds")
        ELSE IF into_mid(g.polys[i]) = Panicked THEN V2Panic("unreachable")
        ELSE [name |-> merged_name(g.name, g.constraint_names[i]),
              poly |-> into_mid(g.polys[i])]]
\* flat_map(..).collect()
RECURSIVE FlatMap(_)
FlatMap(seqs) == IF seqs = <<>> THEN <<>> ELSE Head(seqs) \o FlatMap(Tail(seqs))
\* the conversion of the expressions of the lookups or of the shuffles
ArgumentsIntoMid(args) == MapPairs(args, into_mid)
\* From<ConstraintSystem> for ConstraintSystemV2Backend
into_v2(c) ==
    LET gates == FlatMap([g \in DOMAIN c.gates |-> gate_into_v2(c.gates[g])])
        lookups == ArgumentsIntoMid(c.lookups)
        shuffles == ArgumentsIntoMid(c.shuffles)
    IN  IF \E i \in DOMAIN gates : gates[i] = V2Panic("index out of bounds")
        THEN V2Panic("index out of bounds")
        ELSE IF \/ \E i \in DOMAIN gates : gates[i] = V2Panic("unreachable")
                \/ AnyPanicked(lookups) \/ AnyPanicked(shuffles)
        THEN V2Panic("unreachable")
        ELSE [t |-> "v2",
              num_fixed_columns |-> c.num_fixed_columns,
              num_advice_columns |-> c.num_advice_columns,
              num_instance_columns |-> c.num_instance_columns,
              num_challenges |-> c.num_challenges,
              unblinded_advice_columns |-> c.unblinded_advice_columns,
              advice_column_phase |-> c.advice_column_phase,
              challenge_phase |-> c.challenge_phase,
              gates |-> gates, permutation |-> c.permutation,
              lookups |-> lookups, shuffles |-> shuffles]

\* Body applied to the value of v, which is computed once
Bind(v, Body(_)) == CHOOSE y \in {Body(x) : x \in {v}} : TRUE

\* QueriesMap: the three lists of (column, rotation) pairs, each pair once
NoQueries == [advice |-> <<>>, instance |-> <<>>, fixed |-> <<>>]
AddQuery(list, col, rot) ==
    Bind(IndexOf(list, <<col, rot>>, 1), LAMBDA found :
        IF found > 0 THEN [list |-> list, index |-> found - 1]
        ELSE [list |-> Append(list, <<col, rot>>), index |-> Len(list)])
\* QueriesMap::as_expression
RECURSIVE as_expression(_, _)
as_expression(q, e) ==
    CASE e.t = "Fixed" ->
            Bind(AddQuery(q.fixed, e.column_index, e.rotation), LAMBDA n :
                [q |-> [q EXCEPT !.fixed = n.list],
                 expr |-> FixedExpr(<<n.index>>, e.column_index, e.rotation)])
      [] e.t = "Advice" ->
            Bind(AddQuery(q.advice, e.column_index, e.rotation), LAMBDA n :
                [q |-> [q EXCEPT !.advice = n.list],
                 expr |-> AdviceExpr(<<n.index>>, e.column_index, e.rotation)])
      [] e.t = "Instance" ->
            Bind(AddQuery(q.instance, e.column_index, e.rotation), LAMBDA n :
                [q |-> [q EXCEPT !.instance = n.list],
                 expr |-> InstanceExpr(<<n.index>>, e.column_index, e.rotation)])
      [] e.t \in {"Negated", "Scaled"} ->
            Bind(as_expression(q, e.a), LAMBDA a :
                [q |-> a.q, expr |-> [e EXCEPT !.a = a.expr]])
      [] e.t \in {"Sum", "Product"} ->
            Bind(as_expression(q, e.a), LAMBDA a :
                Bind(as_expression(a.q, e.b), LAMBDA b :
                    [q |-> b.q, expr |-> [e EXCEPT !.a = a.expr, !.b = b.expr]]))
      [] OTHER -> [q |-> q, expr |-> e]

\* cs2_collect_queries_gates: one Gate per backend gate, with its one polynomial and
\* no constraint name
RECURSIVE cs2_collect_queries_gates(_, _, _)
cs2_collect_queries_gates(q, gates, done) ==
    IF gates = <<>> THEN [q |-> q, out |-> done]
    ELSE Bind(as_expression(q, Head(gates).poly), LAMBDA e :
            cs2_collect_queries_gates(e.q, Tail(gates),
                Append(done, [name |-> Head(gates).name, constraint_names |-> <<>>,
                              polys |-> <<e.expr>>, queried_selectors |-> <<>>,
                              queried_cells |-> <<>>])))
\* the expressions of one argument: the inputs, then the table side
RECURSIVE CollectSide(_, _, _, _)
CollectSide(q, pairs, side, done) ==
    IF Len(done) = Len(pairs) THEN [q |-> q, out |-> done]
    ELSE Bind(as_expression(q, IF side = "input" THEN pairs[Len(done) + 1].input
                                  ELSE pairs[Len(done) + 1].table), LAMBDA e :
            CollectSide(e.q, pairs, side, Append(done, e.expr)))
\* cs2_collect_queries_lookups and cs2_collect_queries_shuffles
RECURSIVE cs2_collect_queries_arguments(_, _, _)
cs2_collect_queries_arguments(q, args, done) ==
    IF args = <<>> THEN [q |-> q, out |-> done]
    ELSE Bind(CollectSide(q, Head(args), "input", <<>>), LAMBDA inputs :
            Bind(CollectSide(inputs.q, Head(args), "table", <<>>), LAMBDA tables :
                cs2_collect_queries_arguments(tables.q, Tail(args),
                    Append(done, [j \in DOMAIN Head(args) |->
                                    [input |-> inputs.out[j], table |-> tables.out[j]]]))))
\* the queries of the permutation columns, at the current rotation
RECURSIVE AddPermutation(_, _)
AddPermutation(q, columns) ==
    IF columns = <<>> THEN q
    ELSE LET c == Head(columns)
             next == CASE c.ct = "Instance" ->
                            [q EXCEPT !.instance = AddQuery(@, c.index, 0).list]
                       [] c.ct = "Fixed" ->
                            [q EXCEPT !.fixed = AddQuery(@, c.index, 0).list]
                       [] c.ct = "Advice" ->
                            [q EXCEPT !.advice = AddQuery(@, c.index, 0).list]
         IN AddPermutation(next, Tail(columns))
\* faulty variant: the permutation columns are not queried
collect_queries_without_permutation(v) ==
    Bind(cs2_collect_queries_gates(NoQueries, v.gates, <<>>), LAMBDA gates :
    Bind(cs2_collect_queries_arguments(gates.q, v.lookups, <<>>), LAMBDA lookups :
    Bind(cs2_collect_queries_arguments(lookups.q, v.shuffles, <<>>), LAMBDA shuffles :
    Bind(shuffles.q, LAMBDA q :
        [advice |-> q.advice, instance |-> q.instance, fixed |-> q.fixed,
         num_advice_queries |->
            [i \in 1..v.num_advice_columns |->
                Cardinality({k \in DOMAIN q.advice : q.advice[k][1] = i - 1})],
         gates |-> gates.out, lookups |-> lookups.out, shuffles |-> shuffles.out]))))
\* collect_queries
collect_queries(v) ==
    Bind(cs2_collect_queries_gates(NoQueries, v.gates, <<>>), LAMBDA gates :
    Bind(cs2_collect_queries_arguments(gates.q, v.lookups, <<>>), LAMBDA lookups :
    Bind(cs2_collect_queries_arguments(lookups.q, v.shuffles, <<>>), LAMBDA shuffles :
    Bind(AddPermutation(shuffles.q, v.permutation), LAMBDA q :
        [advice |-> q.advice, instance |-> q.instance, fixed |-> q.fixed,
         num_advice_queries |->
            [i \in 1..v.num_advice_columns |->
                Cardinality({k \in DOMAIN q.advice : q.advice[k][1] = i - 1})],
         gates |-> gates.out, lookups |-> lookups.out, shuffles |-> shuffles.out]))))
\* From<ConstraintSystemV2Backend> for ConstraintSystem
from_v2(v) ==
    Bind(collect_queries(v), LAMBDA c :
    [NoCS EXCEPT !.num_fixed_columns = v.num_fixed_columns,
                 !.num_advice_columns = v.num_advice_columns,
                 !.num_instance_columns = v.num_instance_columns,
                 !.num_challenges = v.num_challenges,
                 !.unblinded_advice_columns = v.unblinded_advice_columns,
                 !.advice_column_phase = v.advice_column_phase,
                 !.challenge_phase = v.challenge_phase,
                 !.gates = c.gates,
                 !.advice_queries = c.advice,
                 !.num_advice_queries = c.num_advice_queries,
                 !.instance_queries = c.instance,
                 !.fixed_queries = c.fixed,
                 !.permutation = v.permutation,
                 !.lookups = c.lookups, !.shuffles = c.shuffles,
                 !.converted = TRUE])

\* a conversion: its name, its argument, what it was made from, and its result
Converted(op, arg, from, out) ==
    /\ last' = [op |-> op, a |-> arg, b |-> from, out |-> out,
                panic |-> out.t = "panic"]
    /\ UNCHANGED <<pvars, exprs, cvars>>
\* the circuit converts (a clone of) its constraint system to the backend view
V2Into ==
    /\ cs.panic = "none"
    /\ Converted("into_v2", NoValue, NoValue, into_v2(cs))
\* the backend rebuilds a constraint system from the view
V2From ==
    /\ last.op = "into_v2" /\ ~last.panic
    /\ Converted("from_v2", last.out, NoValue, [t |-> "cs", cs |-> from_v2(last.out)])
\* the rebuilt constraint system is converted to the backend view again
V2Back ==
    /\ last.op = "from_v2"
    /\ Converted("into_v2_back", last.out, last.a, into_v2(last.out.cs))
V2Next == V2Into \/ V2From \/ V2Back
SpecV2 == CSInit /\ [][CSNext \/ V2Next]_vars

\* ====================================================================
\* Claims about the V2 backend view (checked under SpecV2)
\* ====================================================================
\* the backend expression m is the expression e without its query indices
RECURSIVE SamePolynomial(_, _)
SamePolynomial(e, m) ==
    /\ m.t = e.t
    /\ CASE e.t \in {"Fixed", "Advice", "Instance"} ->
                m.column_index = e.column_index /\ m.rotation = e.rotation
         [] e.t = "Negated" -> SamePolynomial(e.a, m.a)
         [] e.t = "Scaled" -> m.f = e.f /\ SamePolynomial(e.a, m.a)
         [] e.t \in {"Sum", "Product"} ->
                SamePolynomial(e.a, m.a) /\ SamePolynomial(e.b, m.b)
         [] OTHER -> m = e
SameArguments(args, mids) ==
    /\ Len(mids) = Len(args)
    /\ \A i \in DOMAIN args :
        /\ Len(mids[i]) = Len(args[i])
        /\ \A j \in DOMAIN args[i] :
            /\ SamePolynomial(args[i][j].input, mids[i][j].input)
            /\ SamePolynomial(args[i][j].table, mids[i][j].table)
\* the number of polynomials of the gates before gate g
RECURSIVE PolysBefore(_, _)
PolysBefore(gates, g) ==
    IF g <= 1 THEN 0 ELSE PolysBefore(gates, g - 1) + Len(gates[g - 1].polys)
IntoV2Returned == last.op = "into_v2" /\ ~last.panic

\* C31: the backend view of a constraint system has one gate per polynomial, in gate
\* order then constraint order, holding that polynomial and named "gate:constraint",
\* or just "gate" when the constraint name is empty; the counts, the phases, the
\* permutation columns, the lookups and the shuffles are those of the system.
C31_GatesFlattened ==
    IntoV2Returned =>
        LET v == last.out IN
        /\ Len(v.gates) = PolysBefore(cs.gates, Len(cs.gates) + 1)
        /\ \A g \in DOMAIN cs.gates : \A k \in DOMAIN cs.gates[g].polys :
            LET flat == v.gates[PolysBefore(cs.gates, g) + k]
                constraint_name == cs.gates[g].constraint_names[k] IN
            /\ SamePolynomial(cs.gates[g].polys[k], flat.poly)
            /\ (constraint_name = "") => flat.name = cs.gates[g].name
            /\ (constraint_name # "") =>
                    flat.name = cs.gates[g].name \o ":" \o constraint_name
        /\ v.num_fixed_columns = cs.num_fixed_columns
        /\ v.num_advice_columns = cs.num_advice_columns
        /\ v.num_instance_columns = cs.num_instance_columns
        /\ v.num_challenges = cs.num_challenges
        /\ v.unblinded_advice_columns = cs.unblinded_advice_columns
        /\ v.advice_column_phase = cs.advice_column_phase
        /\ v.challenge_phase = cs.challenge_phase
        /\ v.permutation = cs.permutation
        /\ SameArguments(cs.lookups, v.lookups)
        /\ SameArguments(cs.shuffles, v.shuffles)
C31_Witness ==
    /\ IntoV2Returned
    /\ Len(cs.gates) = 2 /\ Len(last.out.gates) = 3
    /\ \E i, j, k \in DOMAIN last.out.gates :
        /\ last.out.gates[i].name = "gate"
        /\ last.out.gates[j].name = "gate:c0" /\ last.out.gates[k].name = "gate:c1"
        /\ last.out.gates[j].poly.t = "Advice"
\* the (column, rotation) pairs of a query list
PairsOf(queries) == {queries[i] : i \in DOMAIN queries}
\* the pairs of the queries of kind t in the stored expressions of c, and of the
\* permutation columns of kind t at the current rotation
UsedPairs(c, t) ==
    {<<q.column_index, q.rotation>> :
        q \in {x \in UNION {QueryLeaves(e) : e \in StoredExprs(c)} : x.t = t}}
    \cup {<<c.permutation[i].index, 0>> :
            i \in {x \in DOMAIN c.permutation : c.permutation[x].ct = t}}
QueryKinds == {"Advice", "Fixed", "Instance"}
FromV2Returned == last.op = "from_v2"

\* C38 (as claimed): the system rebuilt from the backend view holds the same
\* (column, rotation) pairs in its three query lists as the original, and the same
\* num_advice_queries, blinding_factors() and minimum_rows().
C38_QueriesPreserved ==
    FromV2Returned =>
        LET r == last.out.cs IN
        /\ \A t \in QueryKinds : PairsOf(QueriesOf(r, t)) = PairsOf(QueriesOf(cs, t))
        /\ r.num_advice_queries = cs.num_advice_queries
        /\ blinding_factors(r) = blinding_factors(cs)
        /\ minimum_rows(r) = minimum_rows(cs)
\* C38 (amended): the query lists of the rebuilt system hold, each once, exactly the
\* pairs queried in the stored expressions of the original and the permutation
\* columns at the current rotation; these are among the pairs of the original, so
\* num_advice_queries, blinding_factors() and minimum_rows() of the rebuilt system
\* are at most those of the original, and equal them when the advice pairs agree.
C38_QueriesRebuilt ==
    FromV2Returned =>
        LET r == last.out.cs IN
        /\ \A t \in QueryKinds :
            /\ PairsOf(QueriesOf(r, t)) = UsedPairs(cs, t)
            /\ PairsOf(QueriesOf(r, t)) \subseteq PairsOf(QueriesOf(cs, t))
            /\ NoPairTwice(QueriesOf(r, t))
        /\ Len(r.num_advice_queries) = cs.num_advice_columns
        /\ \A i \in DOMAIN r.num_advice_queries :
            /\ r.num_advice_queries[i] =
                    Cardinality({p \in UsedPairs(cs, "Advice") : p[1] = i - 1})
            /\ r.num_advice_queries[i] <= cs.num_advice_queries[i]
        /\ blinding_factors(r) <= blinding_factors(cs)
        /\ minimum_rows(r) <= minimum_rows(cs)
        /\ (PairsOf(r.advice_queries) = PairsOf(cs.advice_queries)) =>
            /\ r.num_advice_queries = cs.num_advice_queries
            /\ blinding_factors(r) = blinding_factors(cs)
            /\ minimum_rows(r) = minimum_rows(cs)
C38_Witness ==
    /\ FromV2Returned
    /\ Len(cs.permutation) > 0 /\ Len(cs.gates) > 0
    /\ PairsOf(last.out.cs.advice_queries) # PairsOf(cs.advice_queries)
    /\ blinding_factors(last.out.cs) < blinding_factors(cs)
\* C39: a backend view converted to a constraint system and back gives, without
\* panic, the gates (names and polynomials) of the view, and every gate of the
\* rebuilt constraint system has a constraint name for each of its polynomials.
C39_GatesRoundTrip ==
    /\ FromV2Returned =>
        \A g \in DOMAIN last.out.cs.gates :
            Len(last.out.cs.gates[g].constraint_names) = Len(last.out.cs.gates[g].polys)
    /\ (last.op = "into_v2_back") =>
        /\ ~last.panic
        /\ last.out.gates = last.b.gates

====
